---- MODULE Spec2Model ----
(***************************************************************************)
(* The context-budgeted aggregation of scripts/synthesize.py               *)
(* (aggregate_library, summarize_document) together with the completion    *)
(* wrapper of scripts/config.py (run_ollama_command).                      *)
(*                                                                         *)
(* Texts.  A file name, a category or a model answer is a TLA+ string.     *)
(* A document's content and the blob can be 128000 characters and more,    *)
(* so a long text is kept run-length encoded: a sequence of pieces, each a *)
(* string t followed by p copies of the filler character FILL.  Every      *)
(* operation of the code on such a text (len, +, [:k], lower, in) is       *)
(* computed on the encoding, which is kept in a normal form so that two    *)
(* texts are equal exactly when their encodings are.                       *)
(***************************************************************************)
EXTENDS Integers, Sequences, FiniteSets, TLC

(***************************************************************************)
(* Bounds of the model.                                                    *)
(***************************************************************************)
\* the most files the library directory holds
MaxDocs == 3

(***************************************************************************)
(* Program constants.                                                      *)
(***************************************************************************)
\* synthesize.py:11
MAX_TOKENS == 32000
\* synthesize.py:75, "approx 4 chars per token"
CHARS_PER_TOKEN == 4
\* synthesize.py:83, "padding for header"
HEADER_PADDING == 50
\* synthesize.py:42, content[:2000]
TRUNCATE_CHARS == 2000

(***************************************************************************)
(* Characters.                                                             *)
(***************************************************************************)
FILL == "~"
UPPER == "ABCDEFGHIJKLMNOPQRSTUVWXYZ"
LOWER == "abcdefghijklmnopqrstuvwxyz"
DIGITS == "0123456789"
\* the characters of the model's texts in code point order
ASCII == "\n -./0123456789:<>ABCDEFGHIJKLMNOPQRSTUVWXYZ_abcdefghijklmnopqrstuvwxyz~"

CharAt(t, i) == SubSeq(t, i, i)
Rest(t) == SubSeq(t, 2, Len(t))
CharsOf(t) == {CharAt(t, i) : i \in 1..Len(t)}

\* ord(c)
Ord == [c \in CharsOf(ASCII) |-> CHOOSE i \in 1..Len(ASCII) : CharAt(ASCII, i) = c]

\* c.lower() for one character
LowerChar == [c \in CharsOf(ASCII) |->
                IF c \in CharsOf(UPPER)
                THEN CharAt(LOWER, CHOOSE i \in 1..Len(UPPER) : CharAt(UPPER, i) = c)
                ELSE c]

\* str.lower()
RECURSIVE lower(_)
lower(t) == IF t = "" THEN "" ELSE LowerChar[CharAt(t, 1)] \o lower(Rest(t))

\* pat in text
In(pat, text) ==
    \E i \in 0..(Len(text) - Len(pat)) : SubSeq(text, i + 1, i + Len(pat)) = pat

\* text.endswith(suffix)
endswith(text, suffix) ==
    /\ Len(text) >= Len(suffix)
    /\ SubSeq(text, Len(text) - Len(suffix) + 1, Len(text)) = suffix

\* a < b for str: lexicographic by code point
RECURSIVE StrLess(_, _)
StrLess(a, b) ==
    IF a = "" THEN b # ""
    ELSE IF b = "" THEN FALSE
    ELSE IF CharAt(a, 1) = CharAt(b, 1) THEN StrLess(Rest(a), Rest(b))
    ELSE Ord[CharAt(a, 1)] < Ord[CharAt(b, 1)]

(***************************************************************************)
(* Run-length encoded texts.                                               *)
(***************************************************************************)
Piece(t, p) == [t |-> t, p |-> p]
Lit(t) == IF t = "" THEN <<>> ELSE <<Piece(t, 0)>>
Fill(n) == IF n = 0 THEN <<>> ELSE <<Piece("", n)>>
Min(a, b) == IF a <= b THEN a ELSE b

\* a + b
Cat(a, b) ==
    IF a = <<>> THEN b
    ELSE IF b = <<>> THEN a
    ELSE LET la == a[Len(a)]
             fb == b[1]
             front == SubSeq(a, 1, Len(a) - 1)
         IN  IF la.p = 0 THEN front \o <<Piece(la.t \o fb.t, fb.p)>> \o Tail(b)
             ELSE IF fb.t = "" THEN front \o <<Piece(la.t, la.p + fb.p)>> \o Tail(b)
             ELSE a \o b

\* len(s)
RECURSIVE StrLen(_)
StrLen(s) == IF s = <<>> THEN 0 ELSE Len(s[1].t) + s[1].p + StrLen(Tail(s))

\* s[:k]
RECURSIVE Slice(_, _)
Slice(s, k) ==
    IF s = <<>> \/ k <= 0 THEN <<>>
    ELSE LET h == s[1] IN
         IF k <= Len(h.t) THEN Lit(SubSeq(h.t, 1, k))
         ELSE IF k <= Len(h.t) + h.p THEN <<Piece(h.t, k - Len(h.t))>>
         ELSE Cat(<<h>>, Slice(Tail(s), k - Len(h.t) - h.p))

\* s[k:]
RECURSIVE DropFirst(_, _)
DropFirst(s, k) ==
    IF s = <<>> THEN <<>>
    ELSE IF k <= 0 THEN s
    ELSE LET h == s[1] IN
         IF k < Len(h.t) THEN <<Piece(SubSeq(h.t, k + 1, Len(h.t)), h.p)>> \o Tail(s)
         ELSE IF k < Len(h.t) + h.p THEN <<Piece("", Len(h.t) + h.p - k)>> \o Tail(s)
         ELSE DropFirst(Tail(s), k - Len(h.t) - h.p)

\* s.lower()
LowerStr(s) == [i \in 1..Len(s) |-> Piece(lower(s[i].t), s[i].p)]

RECURSIVE Rep(_, _)
Rep(c, n) == IF n <= 0 THEN "" ELSE c \o Rep(c, n - 1)

\* The text s with every run of the filler cut to at most m characters.  A
\* string of m characters occurs in s exactly when it occurs in this text.
RECURSIVE Clip(_, _)
Clip(s, m) ==
    IF s = <<>> THEN ""
    ELSE s[1].t \o Rep(FILL, Min(s[1].p, m)) \o Clip(Tail(s), m)

\* pat in s, for a pattern of at least one character
StrContains(pat, s) == In(pat, Clip(s, Len(pat)))

(***************************************************************************)
(* The completion capability: config.py, run_ollama_command.               *)
(***************************************************************************)
WHITESPACE == {" ", "\n"}

\* str.strip()
RECURSIVE lstrip(_)
lstrip(t) == IF t # "" /\ CharAt(t, 1) \in WHITESPACE THEN lstrip(Rest(t)) ELSE t
RECURSIVE rstrip(_)
rstrip(t) ==
    IF t # "" /\ CharAt(t, Len(t)) \in WHITESPACE
    THEN rstrip(SubSeq(t, 1, Len(t) - 1)) ELSE t
strip(t) == rstrip(lstrip(t))

\* the least i >= from with t[i..] starting with pat, 0 when there is none
Find(t, pat, from) ==
    LET hits == {i \in from..(Len(t) - Len(pat) + 1) : SubSeq(t, i, i + Len(pat) - 1) = pat}
    IN  IF hits = {} THEN 0 ELSE CHOOSE i \in hits : \A j \in hits : i <= j

\* re.sub(r'<think>.*?</think>', '', t, flags=re.DOTALL)
RECURSIVE StripThink(_)
StripThink(t) ==
    LET open == Find(t, "<think>", 1)
        close == IF open = 0 THEN 0 ELSE Find(t, "</think>", open + 7)
    IN  IF close = 0 THEN t
        ELSE SubSeq(t, 1, open - 1) \o StripThink(SubSeq(t, close + 8, Len(t)))

\* What the outside world does during one call of run_ollama_command: whether
\* `ollama list` answers, how `ollama run` ends, and what it prints.
ProcessEnds == {"ok", "timeout", "exit_nonzero", "not_found"}
Stdouts == {"", " <think>plan</think>\nkey points \n"}
Worlds == [health : BOOLEAN, ends : ProcessEnds, stdout : Stdouts]

Returned(v) == [raised |-> "", value |-> v]
Raised(e) == [raised |-> e, value |-> ""]

\* run_ollama_command: the new health flag and what the call returns or raises
run_ollama_command(verified, world) ==
    IF ~verified /\ ~world.health
    THEN [verified |-> verified, out |-> Raised("RuntimeError")]
    ELSE [verified |-> TRUE,
          out |-> CASE world.ends = "ok" ->
                         Returned(strip(StripThink(strip(world.stdout))))
                    [] world.ends = "timeout" -> Raised("RuntimeError")
                    [] world.ends = "exit_nonzero" -> Raised("RuntimeError")
                    [] world.ends = "not_found" -> Raised("FileNotFoundError")]

(***************************************************************************)
(* synthesize.py, summarize_document.                                      *)
(***************************************************************************)
\* Mutant: `except RuntimeError` in place of `except Exception`.
CaughtBySummarize_RuntimeErrorOnly == {"RuntimeError"}

\* the exceptions `except Exception` catches
CaughtBySummarize == {"RuntimeError", "FileNotFoundError"}

SummaryHeader(filename) == "\n\n--- SUMMARY OF: " \o filename \o " ---\n\n"
\* Mutant: the header of a truncated document does not name it.
TruncatedHeader_Nameless(filename) == "\n\n--- TRUNCATED DOCUMENT ---\n\n"

TruncatedHeader(filename) == "\n\n--- TRUNCATED DOCUMENT: " \o filename \o " ---\n\n"
TRUNCATION_MARKER == "..."

\* line 38
SummarySection(filename, summary) == Cat(Lit(SummaryHeader(filename)), Lit(summary))

\* Mutant: the whole content in place of content[:2000].
TruncatedSection_NoCutoff(filename, content) ==
    Cat(Cat(Lit(TruncatedHeader(filename)), content), Lit(TRUNCATION_MARKER))

\* line 42
TruncatedSection(filename, content) ==
    Cat(Cat(Lit(TruncatedHeader(filename)), Slice(content, TRUNCATE_CHARS)),
        Lit(TRUNCATION_MARKER))

\* summarize_document, given what its call of run_ollama_command came to
summarize_document(filename, content, completion) ==
    IF completion.raised = "" THEN Returned(SummarySection(filename, completion.value))
    ELSE IF completion.raised \in CaughtBySummarize
         THEN Returned(TruncatedSection(filename, content))
         ELSE Raised(completion.raised)

(***************************************************************************)
(* synthesize.py, aggregate_library: the pure parts.                       *)
(***************************************************************************)
\* the number of leading characters of t that are digits
RECURSIVE LeadingDigits(_)
LeadingDigits(t) ==
    IF t # "" /\ CharAt(t, 1) \in CharsOf(DIGITS) THEN 1 + LeadingDigits(Rest(t)) ELSE 0

\* Mutant: the pattern ^\d_Index_, a single digit.
index_pattern_match_OneDigit(f) ==
    CharAt(f, 1) \in CharsOf(DIGITS) /\ SubSeq(f, 2, 8) = "_Index_"

\* index_pattern.match(f), the pattern being ^\d+_Index_
index_pattern_match(f) ==
    LET n == LeadingDigits(f)
    IN  n >= 1 /\ SubSeq(f, n + 1, n + 7) = "_Index_"

\* the condition of the list comprehension
IsCandidate(f) == endswith(f, ".md") /\ ~index_pattern_match(f)

\* [f for f in listing if ...]
RECURSIVE Filter(_)
Filter(listing) ==
    IF listing = <<>> THEN <<>>
    ELSE (IF IsCandidate(Head(listing)) THEN <<Head(listing)>> ELSE <<>>)
         \o Filter(Tail(listing))

\* sorted(names)
RECURSIVE Insert(_, _)
Insert(x, sortedNames) ==
    IF sortedNames = <<>> THEN <<x>>
    ELSE IF StrLess(x, Head(sortedNames)) THEN <<x>> \o sortedNames
    ELSE <<Head(sortedNames)>> \o Insert(x, Tail(sortedNames))
\* Mutant: the names are taken in the order os.listdir gave them.
sorted_AsListed(names) == names

RECURSIVE sorted(_)
sorted(names) ==
    IF names = <<>> THEN <<>> ELSE Insert(Head(names), sorted(Tail(names)))

\* Mutant: the category is not lowercased.
CategoryKeeps_CaseSensitive(cat, filename, content) ==
    cat = "" \/ ~(/\ ~StrContains("topic/" \o cat, LowerStr(content))
                  /\ ~In(cat, lower(filename)))

\* the category check: TRUE when the document is kept
CategoryKeeps(cat, filename, content) ==
    cat = "" \/ ~(/\ ~StrContains("topic/" \o lower(cat), LowerStr(content))
                  /\ ~In(lower(cat), lower(filename)))

\* Mutant: >= in place of >.
BudgetExceeded_AtLeast(total, current) == total + current >= CHARS_PER_TOKEN * MAX_TOKENS

\* (total_chars + current_chars) / 4 > MAX_TOKENS
BudgetExceeded(total, current) == total + current > CHARS_PER_TOKEN * MAX_TOKENS

RawHeader(filename) == "\n\n--- DOCUMENT: " \o filename \o " ---\n\n"

\* lines 81-82
RawSection(filename, content) == Cat(Lit(RawHeader(filename)), content)

\* The three ways one pass of the loop body changes the run's accumulators
\* st = [aggregated_text, total_chars, file_count].
\* Mutant: the document is counted before the category check.
AfterSkip_Counted(st) == [st EXCEPT !.file_count = @ + 1]

AfterSkip(st) == st

\* Mutant: the header padding is forgotten.
AfterRaw_NoPadding(st, filename, content) ==
    [aggregated_text |-> Cat(st.aggregated_text, RawSection(filename, content)),
     total_chars |-> st.total_chars + StrLen(content),
     file_count |-> st.file_count + 1]

AfterRaw(st, filename, content) ==
    [aggregated_text |-> Cat(st.aggregated_text, RawSection(filename, content)),
     total_chars |-> st.total_chars + StrLen(content) + HEADER_PADDING,
     file_count |-> st.file_count + 1]

\* Mutant: the summary is appended and not added to the running total.
AfterSummary_Uncounted(st, summary) ==
    [aggregated_text |-> Cat(st.aggregated_text, summary),
     total_chars |-> st.total_chars,
     file_count |-> st.file_count + 1]

\* Mutant: the one-way ratchet, the running total never falls back under the
\* ceiling once a document was summarized.
AfterSummary_Ratchet(st, summary) ==
    [aggregated_text |-> Cat(st.aggregated_text, summary),
     total_chars |-> (IF st.total_chars < CHARS_PER_TOKEN * MAX_TOKENS
                      THEN CHARS_PER_TOKEN * MAX_TOKENS ELSE st.total_chars)
                     + StrLen(summary),
     file_count |-> st.file_count + 1]

\* Mutant: only documents included raw are counted.
AfterSummary_NotAFile(st, summary) ==
    [aggregated_text |-> Cat(st.aggregated_text, summary),
     total_chars |-> st.total_chars + StrLen(summary),
     file_count |-> st.file_count]

AfterSummary(st, summary) ==
    [aggregated_text |-> Cat(st.aggregated_text, summary),
     total_chars |-> st.total_chars + StrLen(summary),
     file_count |-> st.file_count + 1]

(***************************************************************************)
(* The library directory the model runs on.                                *)
(***************************************************************************)
\* names whose file content varies, and names that are never candidates
VariedNames == {"a.md", "AI.md", "1_index_b.md"}
OtherNames == {"00_Index_L.md", "c.txt"}
Names == VariedNames \cup OtherNames

Doc(t, p) == [decodable |-> TRUE, content |-> Cat(Lit(t), Fill(p))]
Undecodable == [decodable |-> FALSE, content |-> <<>>]
\* lengths 0, 100, 50, 128000, 128001 and 127900
Files == {Doc("", 0), Doc("topic/ai", 92), Doc("Topic/AI", 42),
          Doc("ai", 127998), Doc("topic/diet", 127991), Doc("", 127900),
          Undecodable}
OtherFile == Doc("topic/ai topic/diet", 81)

Categories == {"", "AI", "diet"}

\* the orders in which os.listdir may list a directory
Listings(dir) ==
    {l \in [1..Cardinality(dir) -> dir] : \A i, j \in 1..Cardinality(dir) : l[i] = l[j] => i = j}

(***************************************************************************)
(* State.                                                                  *)
(***************************************************************************)
VARIABLES
    LIBRARY_DIR_exists,      \* LIBRARY_DIR.exists()
    directory,               \* the names in LIBRARY_DIR
    corpus,                  \* name -> file
    OLLAMA_HEALTH_VERIFIED,  \* config.py:29
    pc,                      \* where the process is
    category,                \* the argument of aggregate_library
    all_files,
    pos,                     \* the index in all_files of the next filename
    aggregated_text,
    total_chars,
    file_count,
    opened,                  \* the names opened so far by this run
    sections,                \* per section appended: the document, the text appended,
                             \* whether the completion was asked, its error or answer
    result,                  \* what aggregate_library returned
    exception,               \* what aggregate_library raised
    LIBRARY_DIR_listable,    \* os.listdir(LIBRARY_DIR) succeeds
    mock,                    \* the subprocess answers a test has fixed, if any
    run_no,                  \* the call of aggregate_library going on: first or second
    first_blob,              \* what the first call returned
    parked,                  \* the locals of the thread that is not running
    interleaved,             \* the threads were switched in the middle of a run
    main_pc,                 \* where synthesize.py's main is
    synthesis_report,        \* what synthesize_knowledge returned to main
    artifact,                \* the files written under SYNTHESIS_DIR
    exit_status,             \* the status the process exited with
    TEMP_DIR,                \* the directories under TEMP_DIR: name -> file names
    video_pc,                \* where get_video_data is
    url,                     \* its argument
    metadata,                \* what json.loads gave
    video_data,              \* what get_video_data returned
    video_exception,         \* what get_video_data raised
    bridge_pc,               \* where bridge.py's main is
    dry_run,                 \* --dry-run
    skill,                   \* --skill
    context,                 \* what extract_skill_data returned
    evaluation,              \* what evaluate_utility returned
    templates,               \* what generate_templates returned
    skill_files,             \* the files under GLOBAL_LIBRARY_PATH: path -> content
    librarian_pc,            \* where librarian.py's main is
    analysis,                \* what analyze_with_ollama returned
    saved,                   \* the reports save_to_library wrote in LIBRARY_DIR
    queue_file,              \* VIDEOS_QUEUE.md
    index_yaml,              \* LIBRARY_DIR / index.yaml
    index_md                 \* LIBRARY_DIR / 00_Index_Library.md

vars == <<LIBRARY_DIR_exists, directory, corpus, OLLAMA_HEALTH_VERIFIED, pc, category,
          all_files, pos, aggregated_text, total_chars, file_count, opened, sections,
          result, exception, LIBRARY_DIR_listable, mock, run_no, first_blob, parked,
          interleaved, main_pc, synthesis_report, artifact, exit_status, TEMP_DIR,
          video_pc, url, metadata, video_data, video_exception, bridge_pc, dry_run,
          skill, context, evaluation, templates, skill_files, librarian_pc, analysis,
          saved, queue_file, index_yaml, index_md>>

world_vars == <<LIBRARY_DIR_exists, LIBRARY_DIR_listable, directory, corpus, mock>>

\* what belongs to a second call, to another thread and to main
twice_vars == <<run_no, first_blob>>
thread_vars == <<parked, interleaved>>
main_vars == <<main_pc, synthesis_report, artifact, exit_status>>
video_vars == <<TEMP_DIR, video_pc, url, metadata, video_data, video_exception>>
bridge_vars == <<bridge_pc, dry_run, skill, context, evaluation, templates, skill_files>>
librarian_vars == <<librarian_pc, analysis, saved, queue_file, index_yaml, index_md>>
outside == <<twice_vars, thread_vars, main_vars, video_vars, bridge_vars, librarian_vars>>

\* the local variables of a call of aggregate_library
Locals == [pc |-> pc, category |-> category, all_files |-> all_files, pos |-> pos,
           aggregated_text |-> aggregated_text, total_chars |-> total_chars,
           file_count |-> file_count, opened |-> opened, sections |-> sections,
           result |-> result, exception |-> exception]

NotCalled == [pc |-> "idle", category |-> "", all_files |-> <<>>, pos |-> 0,
              aggregated_text |-> <<>>, total_chars |-> 0, file_count |-> 0,
              opened |-> {}, sections |-> <<>>, result |-> <<>>, exception |-> ""]

IsLocals(l) ==
    /\ pc = l.pc
    /\ category = l.category
    /\ all_files = l.all_files
    /\ pos = l.pos
    /\ aggregated_text = l.aggregated_text
    /\ total_chars = l.total_chars
    /\ file_count = l.file_count
    /\ opened = l.opened
    /\ sections = l.sections
    /\ result = l.result
    /\ exception = l.exception

\* main has not called synthesize_knowledge
NotSynthesized == [called |-> FALSE, error |-> "", raised |-> "", none |-> TRUE, text |-> ""]

\* no test has patched subprocess.run
NoMock == [on |-> FALSE, health |-> FALSE, run |-> <<>>]

Accumulators == [aggregated_text |-> aggregated_text, total_chars |-> total_chars,
                 file_count |-> file_count]

SetAccumulators(st) ==
    /\ aggregated_text' = st.aggregated_text
    /\ total_chars' = st.total_chars
    /\ file_count' = st.file_count

\* a library of at most n documents, named from names, with contents from files
CorpusIn(names, files, n) ==
    /\ LIBRARY_DIR_exists \in BOOLEAN
    /\ LIBRARY_DIR_listable \in BOOLEAN
    /\ ~LIBRARY_DIR_exists => ~LIBRARY_DIR_listable
    /\ directory \in {d \in SUBSET names : Cardinality(d) <= n}
    /\ ~LIBRARY_DIR_listable => directory = {}
    /\ corpus \in [directory -> files \cup {OtherFile}]
    /\ \A f \in directory : IF f \in VariedNames THEN corpus[f] \in files
                            ELSE corpus[f] = OtherFile

\* a fresh process: config.py:29, and nothing called yet
ProcessInit ==
    /\ OLLAMA_HEALTH_VERIFIED = FALSE
    /\ IsLocals(NotCalled)
    /\ run_no = 1
    /\ first_blob = <<>>
    /\ parked = NotCalled
    /\ interleaved = FALSE
    /\ main_pc = "off"
    /\ synthesis_report = NotSynthesized
    /\ artifact = {}
    /\ exit_status = "running"

\* get_video_data has not been called
NoData == [none |-> TRUE, title |-> "", channel |-> "", url |-> "", video_id |-> "",
           transcript_of |-> ""]
NoMetadata == [object |-> FALSE, dict |-> <<>>]

VideoInit ==
    /\ video_pc = "idle"
    /\ url = ""
    /\ metadata = NoMetadata
    /\ video_data = NoData
    /\ video_exception = ""

\* an optional string: None, or the text
None == [none |-> TRUE, text |-> ""]
Some(t) == [none |-> FALSE, text |-> t]

\* bridge.py's main has not been started
BridgeInit ==
    /\ bridge_pc = "idle"
    /\ dry_run = FALSE
    /\ skill = ""
    /\ context = None
    /\ evaluation = None
    /\ templates = [none |-> TRUE, dict |-> <<>>]
    /\ skill_files = <<>>

\* librarian.py's main has not been started
LibrarianInit ==
    /\ librarian_pc = "idle"
    /\ analysis = None
    /\ saved = <<>>

\* no VIDEOS_QUEUE.md and no index
NoQueueNoIndex ==
    /\ queue_file = None
    /\ index_yaml = [kind |-> "missing", entries |-> <<>>]
    /\ index_md = None

Init ==
    /\ CorpusIn(Names, Files, MaxDocs)
    /\ mock = NoMock
    /\ ProcessInit
    /\ TEMP_DIR = <<>>
    /\ VideoInit
    /\ BridgeInit
    /\ LibrarianInit
    /\ NoQueueNoIndex

(***************************************************************************)
(* Actions.                                                                *)
(***************************************************************************)
\* config.py, check_environment, lines 131-168, as main calls it before
\* anything else (synthesize.py:130-131): the critical paths are created, or
\* the process exits with status 1
check_environment ==
    /\ pc = "idle"
    /\ main_pc = "off"
    /\ \E ok \in BOOLEAN :
         IF ok
         THEN /\ OLLAMA_HEALTH_VERIFIED' = TRUE
              /\ LIBRARY_DIR_exists' = TRUE
              /\ LIBRARY_DIR_listable' = (~LIBRARY_DIR_exists \/ LIBRARY_DIR_listable)
              /\ pc' = "ready"
              /\ main_pc' = "started"
              /\ UNCHANGED exit_status
         ELSE /\ UNCHANGED <<OLLAMA_HEALTH_VERIFIED, LIBRARY_DIR_exists, LIBRARY_DIR_listable>>
              /\ pc' = "exited"
              /\ main_pc' = "exited"
              /\ exit_status' = "1"
    /\ UNCHANGED <<directory, corpus, mock, category, all_files, pos, aggregated_text,
                   total_chars, file_count, opened, sections, result, exception,
                   twice_vars, thread_vars, video_vars, bridge_vars, librarian_vars, synthesis_report, artifact>>

\* Mutant: the running total is a module-level variable that is not reset.
StartOfRun_TotalKept(st) == [st EXCEPT !.aggregated_text = <<>>, !.file_count = 0]

\* lines 53-55
StartOfRun(st) == [aggregated_text |-> <<>>, total_chars |-> 0, file_count |-> 0]

\* aggregate_library(cat) for a cat of cats, lines 49-60
Call(cats) ==
    /\ \E cat \in cats, listing \in Listings(directory) :
         /\ category' = cat
         /\ IF ~LIBRARY_DIR_exists
            THEN /\ pc' = "returned"
                 /\ result' = <<>>
                 /\ UNCHANGED <<all_files, pos, exception>>
            ELSE IF ~LIBRARY_DIR_listable
            THEN /\ pc' = "raised"
                 /\ exception' = "PermissionError"
                 /\ UNCHANGED <<all_files, pos, result>>
            ELSE /\ pc' = "loop"
                 /\ all_files' = sorted(Filter(listing))
                 /\ pos' = 1
                 /\ UNCHANGED <<result, exception>>
    /\ SetAccumulators(StartOfRun(Accumulators))
    /\ opened' = {}
    /\ sections' = <<>>
    /\ UNCHANGED <<world_vars, OLLAMA_HEALTH_VERIFIED>>

\* aggregate_library, called by main or directly
aggregate_library ==
    /\ pc \in {"idle", "ready"}
    /\ Call(Categories)
    /\ UNCHANGED outside

\* what subprocess.run does when the completion is asked about the document
WorldsFor(f) ==
    IF mock.on
    THEN {[health |-> mock.health, ends |-> mock.run[f].ends, stdout |-> mock.run[f].stdout]}
    ELSE Worlds

InLoop == pc = "loop" /\ pos <= Len(all_files)
filename == all_files[pos]

\* lines 65-66: the file does not decode, the error leaves aggregate_library
ReadFails ==
    /\ InLoop
    /\ ~corpus[filename].decodable
    /\ opened' = opened \cup {filename}
    /\ pc' = "raised"
    /\ exception' = "UnicodeDecodeError"
    /\ UNCHANGED <<world_vars, outside, OLLAMA_HEALTH_VERIFIED, category, all_files, pos,
                   aggregated_text, total_chars, file_count, sections, result>>

\* lines 69-71: the category check fails, continue
SkipDocument ==
    /\ InLoop
    /\ corpus[filename].decodable
    /\ ~CategoryKeeps(category, filename, corpus[filename].content)
    /\ opened' = opened \cup {filename}
    /\ SetAccumulators(AfterSkip(Accumulators))
    /\ pos' = pos + 1
    /\ UNCHANGED <<world_vars, outside, OLLAMA_HEALTH_VERIFIED, pc, category, all_files, sections,
                   result, exception>>

\* lines 80-85: the document fits
IncludeRaw ==
    /\ InLoop
    /\ corpus[filename].decodable
    /\ LET content == corpus[filename].content IN
         /\ CategoryKeeps(category, filename, content)
         /\ ~BudgetExceeded(total_chars, StrLen(content))
         /\ SetAccumulators(AfterRaw(Accumulators, filename, content))
         /\ sections' = Append(sections,
                [filename |-> filename, content |-> content,
                 text |-> RawSection(filename, content),
                 asked |-> FALSE, error |-> "", summary |-> ""])
    /\ opened' = opened \cup {filename}
    /\ pos' = pos + 1
    /\ UNCHANGED <<world_vars, outside, OLLAMA_HEALTH_VERIFIED, pc, category, all_files, result,
                   exception>>

\* lines 75-79 and 85: the document does not fit
SummarizeDocument ==
    /\ InLoop
    /\ corpus[filename].decodable
    /\ LET content == corpus[filename].content IN
         /\ CategoryKeeps(category, filename, content)
         /\ BudgetExceeded(total_chars, StrLen(content))
         /\ \E world \in WorldsFor(filename) :
              LET call == run_ollama_command(OLLAMA_HEALTH_VERIFIED, world)
                  summary == summarize_document(filename, content, call.out)
              IN  /\ OLLAMA_HEALTH_VERIFIED' = call.verified
                  /\ IF summary.raised = ""
                     THEN /\ SetAccumulators(AfterSummary(Accumulators, summary.value))
                          /\ sections' = Append(sections,
                                 [filename |-> filename, content |-> content,
                                  text |-> summary.value,
                                  asked |-> TRUE, error |-> call.out.raised,
                                  summary |-> call.out.value])
                          /\ pos' = pos + 1
                          /\ UNCHANGED <<pc, exception>>
                     ELSE /\ pc' = "raised"
                          /\ exception' = summary.raised
                          /\ UNCHANGED <<aggregated_text, total_chars, file_count,
                                         sections, pos>>
    /\ opened' = opened \cup {filename}
    /\ UNCHANGED <<world_vars, outside, category, all_files, result>>

\* lines 87-88
ReturnBlob ==
    /\ pc = "loop"
    /\ pos > Len(all_files)
    /\ pc' = "returned"
    /\ result' = aggregated_text
    /\ UNCHANGED <<world_vars, outside, OLLAMA_HEALTH_VERIFIED, category, all_files, pos,
                   aggregated_text, total_chars, file_count, opened, sections, exception>>

Next ==
    \/ check_environment
    \/ aggregate_library
    \/ ReadFails
    \/ SkipDocument
    \/ IncludeRaw
    \/ SummarizeDocument
    \/ ReturnBlob

Spec == Init /\ [][Next]_vars

(***************************************************************************)
(* Two calls of aggregate_library, one after the other, in one process,    *)
(* with subprocess.run patched to answer by its arguments alone.           *)
(***************************************************************************)
FewFiles == {Doc("topic/ai", 92), Doc("", 127900), Doc("topic/diet", 127991)}

\* what a patched subprocess.run does for `ollama run`
Answers == {[ends |-> "ok", stdout |-> " <think>plan</think>\nkey points \n"],
            [ends |-> "timeout", stdout |-> ""]}

\* the patches: one answer to `ollama list`, one to each document's prompt
Mocks(dir) ==
    {[on |-> TRUE, health |-> h, run |-> r] :
        h \in BOOLEAN, r \in [{f \in dir : IsCandidate(f)} -> Answers]}

InitTwice ==
    /\ CorpusIn(Names, FewFiles, MaxDocs)
    /\ mock \in Mocks(directory)
    /\ ProcessInit
    /\ TEMP_DIR = <<>>
    /\ VideoInit
    /\ BridgeInit
    /\ LibrarianInit
    /\ NoQueueNoIndex

\* the second call, with the argument of the first
aggregate_library_again ==
    /\ pc = "returned"
    /\ run_no = 1
    /\ Call({category})
    /\ run_no' = 2
    /\ first_blob' = result
    /\ UNCHANGED <<thread_vars, main_vars, video_vars, bridge_vars, librarian_vars>>

NextTwice ==
    \/ aggregate_library
    \/ SkipDocument
    \/ IncludeRaw
    \/ SummarizeDocument
    \/ ReturnBlob
    \/ aggregate_library_again

SpecTwice == InitTwice /\ [][NextTwice]_vars

(***************************************************************************)
(* Two calls of aggregate_library in two threads of one process, switched  *)
(* between passes of the loop, with subprocess.run patched as above.       *)
(***************************************************************************)
ThreadFiles == {Doc("", 127900), Doc("topic/diet", 127991)}

InitThreads ==
    /\ CorpusIn(VariedNames, ThreadFiles, MaxDocs)
    /\ mock \in Mocks(directory)
    /\ ProcessInit
    /\ TEMP_DIR = <<>>
    /\ VideoInit
    /\ BridgeInit
    /\ LibrarianInit
    /\ NoQueueNoIndex

\* the second thread calls with the argument of the first
aggregate_library_in_thread ==
    /\ pc = "idle"
    /\ Call(IF parked.pc = "idle" THEN Categories ELSE {parked.category})
    /\ UNCHANGED outside

\* Mutant: the running total is a module-level variable, one for both threads.
SetLocals_TotalShared(l) ==
    /\ pc' = l.pc
    /\ category' = l.category
    /\ all_files' = l.all_files
    /\ pos' = l.pos
    /\ aggregated_text' = l.aggregated_text
    /\ total_chars' = total_chars
    /\ file_count' = l.file_count
    /\ opened' = l.opened
    /\ sections' = l.sections
    /\ result' = l.result
    /\ exception' = l.exception

\* the running thread goes on with its own locals
SetLocals(l) ==
    /\ pc' = l.pc
    /\ category' = l.category
    /\ all_files' = l.all_files
    /\ pos' = l.pos
    /\ aggregated_text' = l.aggregated_text
    /\ total_chars' = l.total_chars
    /\ file_count' = l.file_count
    /\ opened' = l.opened
    /\ sections' = l.sections
    /\ result' = l.result
    /\ exception' = l.exception

\* the interpreter switches to the other thread
Switch ==
    /\ parked.pc \in {"idle", "loop"}
    /\ parked' = Locals
    /\ SetLocals(parked)
    /\ interleaved' = (interleaved \/ pc = "loop")
    /\ UNCHANGED <<world_vars, OLLAMA_HEALTH_VERIFIED, twice_vars, main_vars, video_vars, bridge_vars, librarian_vars>>

NextThreads ==
    \/ aggregate_library_in_thread
    \/ SkipDocument
    \/ IncludeRaw
    \/ SummarizeDocument
    \/ ReturnBlob
    \/ Switch

SpecThreads == InitThreads /\ [][NextThreads]_vars

(***************************************************************************)
(* synthesize.py, synthesize_knowledge and main.                           *)
(***************************************************************************)
\* The backquote, which a string of this module cannot hold, is written ^.
TICK == "^"
FENCE == TICK \o TICK \o TICK

\* t.split(sep)[1].split(FENCE)[0].strip(), for a t that holds sep
Fenced(t, sep) ==
    LET open == Find(t, sep, 1)
        inner == SubSeq(t, open + Len(sep), Len(t))
        close == Find(inner, FENCE, 1)
    IN  strip(IF close = 0 THEN inner ELSE SubSeq(inner, 1, close - 1))

\* lines 119-123
ExtractMarkdown(t) ==
    IF In(FENCE \o "markdown", t) THEN Fenced(t, FENCE \o "markdown")
    ELSE IF In(FENCE, t) THEN Fenced(t, FENCE)
    ELSE t

\* Mutant: `except RuntimeError` in place of `except Exception`.
CaughtBySynthesize_RuntimeErrorOnly == {"RuntimeError"}

\* the exceptions `except Exception` catches, line 125
CaughtBySynthesize == {"RuntimeError", "FileNotFoundError"}

\* synthesize_knowledge, lines 115-127, on what run_ollama_command returned
\* or raised: the report, None, or an exception that leaves it
synthesize_knowledge(completion) ==
    IF completion.raised = ""
    THEN [called |-> TRUE, error |-> "", raised |-> "", none |-> FALSE,
          text |-> ExtractMarkdown(completion.value)]
    ELSE IF completion.raised \in CaughtBySynthesize
    THEN [called |-> TRUE, error |-> completion.raised, raised |-> "", none |-> TRUE,
          text |-> ""]
    ELSE [called |-> TRUE, error |-> completion.raised, raised |-> completion.raised,
          none |-> TRUE, text |-> ""]

\* `if synthesis_report:`, line 155
Truthy(report) == ~report.none /\ report.text # ""

\* filepath.resolve().is_relative_to(SYNTHESIS_DIR.resolve()) for
\* filepath = SYNTHESIS_DIR / name, with depth directories entered so far
RECURSIVE StaysBelow(_, _)
StaysBelow(name, depth) ==
    IF name = "" THEN TRUE
    ELSE LET cut == Find(name, "/", 1)
             seg == IF cut = 0 THEN name ELSE SubSeq(name, 1, cut - 1)
             rest == IF cut = 0 THEN "" ELSE SubSeq(name, cut + 1, Len(name))
         IN  IF seg = ".." THEN depth > 0 /\ StaysBelow(rest, depth - 1)
             ELSE IF seg \in {"", "."} THEN StaysBelow(rest, depth)
             ELSE StaysBelow(rest, depth + 1)
is_relative_to(name) == CharAt(name, 1) # "/" /\ StaysBelow(name, 0)

\* f"{timestamp}_{safe_topic}.md" for the default topic on a day
DefaultName == "2026-01-01_ai-orchestration-automation.md"

\* --output
OutputArgs == {"", "plan.md", "sub/../plan.md", "../plan.md", "/tmp/plan.md"}

\* what `ollama run` prints for the synthesis prompt
SynthesisStdouts ==
    {"", "# Master Strategy", FENCE \o "\n" \o FENCE,
     " <think>plan</think>\n" \o FENCE \o "markdown\n# Master Strategy\n" \o FENCE \o "\n"}
SynthesisWorlds == [health : BOOLEAN, ends : ProcessEnds, stdout : SynthesisStdouts]

MainFiles == {Doc("topic/ai", 92), Doc("", 127900), Undecodable}

InitMain ==
    /\ CorpusIn(Names, MainFiles, MaxDocs)
    /\ mock = NoMock
    /\ ProcessInit
    /\ TEMP_DIR = <<>>
    /\ VideoInit
    /\ BridgeInit
    /\ LibrarianInit
    /\ NoQueueNoIndex

\* line 147
main_aggregate ==
    /\ main_pc = "started"
    /\ aggregate_library

AggregationVars ==
    <<pc, category, all_files, pos, aggregated_text, total_chars, file_count, opened,
      sections, result, exception>>

\* an exception of aggregate_library is caught nowhere: traceback, status 1
main_traceback ==
    /\ main_pc = "started"
    /\ pc = "raised"
    /\ main_pc' = "exited"
    /\ exit_status' = "1"
    /\ UNCHANGED <<world_vars, OLLAMA_HEALTH_VERIFIED, AggregationVars, twice_vars,
                   thread_vars, video_vars, bridge_vars, librarian_vars, synthesis_report, artifact>>

\* lines 149-151
main_no_documents ==
    /\ main_pc = "started"
    /\ pc = "returned"
    /\ result = <<>>
    /\ main_pc' = "exited"
    /\ exit_status' = "1"
    /\ UNCHANGED <<world_vars, OLLAMA_HEALTH_VERIFIED, AggregationVars, twice_vars,
                   thread_vars, video_vars, bridge_vars, librarian_vars, synthesis_report, artifact>>

\* line 153
main_synthesize ==
    /\ main_pc = "started"
    /\ pc = "returned"
    /\ result # <<>>
    /\ \E world \in SynthesisWorlds :
         LET call == run_ollama_command(OLLAMA_HEALTH_VERIFIED, world)
             report == synthesize_knowledge(call.out)
         IN  /\ OLLAMA_HEALTH_VERIFIED' = call.verified
             /\ synthesis_report' = report
             /\ IF report.raised = ""
                THEN main_pc' = "synthesized" /\ UNCHANGED exit_status
                ELSE main_pc' = "exited" /\ exit_status' = "1"
    /\ UNCHANGED <<world_vars, AggregationVars, twice_vars, thread_vars, video_vars, bridge_vars, librarian_vars,
                   artifact>>

\* lines 155-176: the report is written, unless the path leaves SYNTHESIS_DIR
\* or the file cannot be written
main_save ==
    /\ main_pc = "synthesized"
    /\ Truthy(synthesis_report)
    /\ \E output \in OutputArgs, writable \in BOOLEAN :
         LET name == IF output # "" THEN output ELSE DefaultName IN
         IF is_relative_to(name) /\ writable
         THEN /\ artifact' = artifact \cup {[filename |-> name,
                                             report |-> synthesis_report.text]}
              /\ exit_status' = "0"
         ELSE /\ exit_status' = "1"
              /\ UNCHANGED artifact
    /\ main_pc' = "exited"
    /\ UNCHANGED <<world_vars, OLLAMA_HEALTH_VERIFIED, AggregationVars, twice_vars,
                   thread_vars, video_vars, bridge_vars, librarian_vars, synthesis_report>>

\* lines 177-179
main_failed ==
    /\ main_pc = "synthesized"
    /\ ~Truthy(synthesis_report)
    /\ main_pc' = "exited"
    /\ exit_status' = "1"
    /\ UNCHANGED <<world_vars, OLLAMA_HEALTH_VERIFIED, AggregationVars, twice_vars,
                   thread_vars, video_vars, bridge_vars, librarian_vars, synthesis_report, artifact>>

NextMain ==
    \/ check_environment
    \/ main_aggregate
    \/ ReadFails
    \/ SkipDocument
    \/ IncludeRaw
    \/ SummarizeDocument
    \/ ReturnBlob
    \/ main_traceback
    \/ main_no_documents
    \/ main_synthesize
    \/ main_save
    \/ main_failed

SpecMain == InitMain /\ [][NextMain]_vars

(***************************************************************************)
(* librarian.py, get_video_data, with config.py's create_temp_dir_name     *)
(* and select_subtitle.                                                    *)
(***************************************************************************)
URLS == {"https://youtu.be/a", "https://youtu.be/b"}

\* hashlib.md5(url.encode()).hexdigest()[:8]
Md5Prefix(u) ==
    CASE u = "https://youtu.be/a" -> "7e8cd278"
      [] u = "https://youtu.be/b" -> "b8925e11"

\* config.py:92-95
create_temp_dir_name(u) == "transcript_" \o Md5Prefix(u)

\* t.split(".")
RECURSIVE SplitDots(_)
SplitDots(t) ==
    LET cut == Find(t, ".", 1)
    IN  IF cut = 0 THEN <<t>>
        ELSE <<SubSeq(t, 1, cut - 1)>> \o SplitDots(SubSeq(t, cut + 1, Len(t)))

\* [a-zA-Z0-9-]+
IsLocale(t) == t # "" /\ CharsOf(t) \subseteq CharsOf(UPPER \o LOWER \o DIGITS \o "-")

\* config.py:103 on f: "" for no match, "manual" without group 2, "auto" with
SubtitleKind(f, base_name) ==
    LET parts == SplitDots(f) IN
    IF Len(parts) \in {3, 4}
       /\ lower(parts[1]) = lower(base_name)
       /\ IsLocale(parts[2])
       /\ lower(parts[Len(parts)]) = "srt"
    THEN IF Len(parts) = 3 THEN "manual"
         ELSE IF lower(parts[3]) \in {"auto", "auto-subs"} THEN "auto"
         ELSE ""
    ELSE ""

\* the first of sorted(names)
First(names) == CHOOSE f \in names : \A g \in names : g = f \/ StrLess(f, g)

\* select_subtitle, config.py:97-129: "" for None
select_subtitle(filenames, base_name) ==
    LET manual_matches == {f \in filenames : SubtitleKind(f, base_name) = "manual"}
        auto_matches == {f \in filenames : SubtitleKind(f, base_name) = "auto"}
    IN  IF manual_matches # {} THEN First(manual_matches)
        ELSE IF auto_matches # {} THEN First(auto_matches)
        ELSE ""

\* metadata.get(key) or default
GetOr(dict, key, default) ==
    IF key \in DOMAIN dict /\ dict[key] # "" THEN dict[key] ELSE default

\* what yt-dlp may leave in the directory
SubtitleFiles == {"transcript.en.srt", "transcript.en-US.srt", "transcript.en.auto.srt",
                  "transcript.en.vtt"}

\* what `yt-dlp --print-json` prints, parsed: an object, or another JSON value
Jsons == {[object |-> TRUE, dict |-> [title |-> "Agents", uploader |-> "", id |-> "a1"]],
          [object |-> TRUE, dict |-> [title |-> "Agents"]],
          [object |-> FALSE, dict |-> <<>>]}

\* unique_temp.mkdir(parents=True, exist_ok=True), line 52
Mkdir(dirs, name) ==
    IF name \in DOMAIN dirs THEN dirs
    ELSE [d \in DOMAIN dirs \cup {name} |-> IF d = name THEN {} ELSE dirs[d]]

\* shutil.rmtree(unique_temp)
Rmtree(dirs, name) == [d \in DOMAIN dirs \ {name} |-> dirs[d]]

\* The directory as get_video_data leaves it, by the way it is left: "return",
\* "return None" or "raise".
\* Mutant: the cleanup is the last statement of the try block, not a finally.
Finally_OnReturn(dirs, name, exit) ==
    IF exit = "return" /\ name \in DOMAIN dirs THEN Rmtree(dirs, name) ELSE dirs

\* finally, lines 112-115
Finally(dirs, name, exit) ==
    IF name \in DOMAIN dirs THEN Rmtree(dirs, name) ELSE dirs

\* directories left behind by earlier runs
Leftovers ==
    UNION {[names -> SUBSET {"transcript.en.auto.srt", "transcript.fr.srt"}] :
              names \in SUBSET {create_temp_dir_name(u) : u \in URLS}}

InitVideo ==
    /\ LIBRARY_DIR_exists = FALSE
    /\ LIBRARY_DIR_listable = FALSE
    /\ directory = {}
    /\ corpus = <<>>
    /\ mock = NoMock
    /\ ProcessInit
    /\ TEMP_DIR \in Leftovers
    /\ VideoInit
    /\ BridgeInit
    /\ LibrarianInit
    /\ NoQueueNoIndex

unique_temp == create_temp_dir_name(url)

NotVideo ==
    <<world_vars, OLLAMA_HEALTH_VERIFIED, AggregationVars, twice_vars, thread_vars,
      main_vars, bridge_vars, librarian_vars>>

\* get_video_data leaves by return None or by an exception
Leave(exit, exc) ==
    /\ TEMP_DIR' = Finally(TEMP_DIR, unique_temp, exit)
    /\ video_pc' = IF exit = "raise" THEN "raised" ELSE "returned"
    /\ video_exception' = exc
    /\ video_data' = NoData

\* lines 50-53
get_video_data ==
    /\ video_pc = "idle"
    /\ \E u \in URLS :
         /\ url' = u
         /\ TEMP_DIR' = Mkdir(TEMP_DIR, create_temp_dir_name(u))
    /\ video_pc' = "metadata"
    /\ UNCHANGED <<NotVideo, metadata, video_data, video_exception>>

\* lines 56-67: yt-dlp --print-json and json.loads
FetchMetadata ==
    /\ video_pc = "metadata"
    /\ \/ /\ Leave("raise", "FileNotFoundError")
          /\ UNCHANGED metadata
       \/ /\ Leave("return None", "")
          /\ UNCHANGED metadata
       \/ /\ Leave("raise", "JSONDecodeError")
          /\ UNCHANGED metadata
       \/ /\ \E json \in Jsons : metadata' = json
          /\ video_pc' = "subtitles"
          /\ UNCHANGED <<TEMP_DIR, video_data, video_exception>>
    /\ UNCHANGED <<NotVideo, url>>

\* lines 69-84: yt-dlp --write-subs, which may write files whatever its
\* return code
FetchSubtitles ==
    /\ video_pc = "subtitles"
    /\ \E written \in SUBSET SubtitleFiles :
         TEMP_DIR' = [TEMP_DIR EXCEPT ![unique_temp] = @ \cup written]
    /\ video_pc' = "select"
    /\ UNCHANGED <<NotVideo, url, metadata, video_data, video_exception>>

\* lines 86-115: the subtitle is chosen and read, the dictionary is built
ReadTranscript ==
    /\ video_pc = "select"
    /\ LET srt_files == {f \in TEMP_DIR[unique_temp] : endswith(f, ".srt")}
           target_file == select_subtitle(srt_files, "transcript")
       IN  \/ /\ target_file # ""
              /\ Leave("raise", "UnicodeDecodeError")
           \/ /\ ~metadata.object
              /\ Leave("raise", "AttributeError")
           \/ /\ metadata.object
              /\ TEMP_DIR' = Finally(TEMP_DIR, unique_temp, "return")
              /\ video_pc' = "returned"
              /\ video_data' =
                    [none |-> FALSE,
                     title |-> GetOr(metadata.dict, "title", "Untitled"),
                     channel |-> GetOr(metadata.dict, "uploader", "Unknown_Channel"),
                     url |-> url,
                     video_id |-> GetOr(metadata.dict, "id", "unknown"),
                     transcript_of |-> target_file]
              /\ UNCHANGED video_exception
    /\ UNCHANGED <<NotVideo, url, metadata>>

NextVideo ==
    \/ get_video_data
    \/ FetchMetadata
    \/ FetchSubtitles
    \/ ReadTranscript

SpecVideo == InitVideo /\ [][NextVideo]_vars

(***************************************************************************)
(* bridge.py: a skill of a research report is promoted to the library of   *)
(* skills.                                                                 *)
(***************************************************************************)
\* str.lower() for a text with any characters
RECURSIVE str_lower(_)
str_lower(t) ==
    IF t = "" THEN ""
    ELSE (IF CharAt(t, 1) \in DOMAIN LowerChar THEN LowerChar[CharAt(t, 1)] ELSE CharAt(t, 1))
         \o str_lower(Rest(t))

\* text.startswith(prefix)
startswith(text, prefix) ==
    Len(text) >= Len(prefix) /\ SubSeq(text, 1, Len(prefix)) = prefix

\* text.split(sep), a sequence of strings
RECURSIVE split(_, _)
split(text, sep) ==
    LET cut == Find(text, sep, 1)
    IN  IF cut = 0 THEN <<text>>
        ELSE <<SubSeq(text, 1, cut - 1)>> \o split(SubSeq(text, cut + Len(sep), Len(text)), sep)

\* sep.join(parts)
RECURSIVE join(_, _)
join(sep, parts) ==
    IF parts = <<>> THEN ""
    ELSE IF Len(parts) = 1 THEN parts[1]
    ELSE parts[1] \o sep \o join(sep, Tail(parts))

\* text.rfind(pat): the greatest i with text[i..] starting with pat, 0 when
\* there is none
RFind(text, pat) ==
    LET hits == {i \in 1..(Len(text) - Len(pat) + 1) : SubSeq(text, i, i + Len(pat) - 1) = pat}
    IN  IF hits = {} THEN 0 ELSE CHOOSE i \in hits : \A j \in hits : i >= j

\* bridge.py:38, `if len(context) > 50`
CONTEXT_LINES == 50

\* extract_skill_data, lines 19-41, for a source [exists, content]
extract_skill_data(source, skill_name) ==
    IF ~source.exists THEN None
    ELSE LET lines == split(source.content, "\n")
             hits == {k \in 1..Len(lines) : In(str_lower(skill_name), str_lower(lines[k]))}
             first == CHOOSE k \in hits : \A j \in hits : k <= j
         IN  IF hits = {} THEN Some(source.content)
             ELSE Some(join("\n", SubSeq(lines, first, Min(Len(lines), first + CONTEXT_LINES))))

\* call_ollama, lines 10-17: the new health flag, and the completion or None
call_ollama(verified, world) ==
    LET call == run_ollama_command(verified, world)
    IN  [verified |-> call.verified,
         out |-> IF call.out.raised # "" THEN None ELSE Some(call.out.value)]

\* the text after `DECISION:\s*\[` of a match of the pattern at i, lowered
AfterDecision(text, i) ==
    LET tail == str_lower(SubSeq(text, i, Len(text)))
    IN  IF (i = 1 \/ CharAt(text, i - 1) = "\n") /\ startswith(tail, "decision:")
        THEN lstrip(SubSeq(tail, 10, Len(tail)))
        ELSE ""

\* parse_decision, lines 129-139: the first match of
\* ^DECISION:\s*\[(PROMOTE|REJECT)\] with IGNORECASE and MULTILINE
parse_decision(evaluation_text) ==
    IF evaluation_text.none THEN "UNKNOWN"
    ELSE LET text == evaluation_text.text
             group(i) == IF startswith(AfterDecision(text, i), "[promote]") THEN "PROMOTE"
                         ELSE IF startswith(AfterDecision(text, i), "[reject]") THEN "REJECT"
                         ELSE ""
             matches == {i \in 1..Len(text) : group(i) # ""}
         IN  IF matches = {} THEN "UNKNOWN"
             ELSE group(CHOOSE i \in matches : \A j \in matches : i <= j)

\* json.loads for an object whose keys are strings without escapes and whose
\* values are such strings or numbers; any other text is a JSONDecodeError
JSONDecodeError == [raised |-> TRUE, dict |-> <<>>]
RECURSIVE SkipWhitespace(_, _)
SkipWhitespace(t, i) ==
    IF i <= Len(t) /\ CharAt(t, i) \in WHITESPACE THEN SkipWhitespace(t, i + 1) ELSE i
RECURSIVE SkipDigits(_, _)
SkipDigits(t, i) ==
    IF i <= Len(t) /\ CharAt(t, i) \in CharsOf(DIGITS) THEN SkipDigits(t, i + 1) ELSE i

\* the string that opens at t[i]: its text and the place after it
JsonString(t, i) ==
    LET close == IF i <= Len(t) /\ CharAt(t, i) = "\"" THEN Find(t, "\"", i + 1) ELSE 0
    IN  IF close = 0 THEN [ok |-> FALSE, str |-> TRUE, text |-> "", next |-> i]
        ELSE [ok |-> TRUE, str |-> TRUE, text |-> SubSeq(t, i + 1, close - 1),
              next |-> close + 1]

\* the value that opens at t[i]
JsonValue(t, i) ==
    IF SkipDigits(t, i) > i
    THEN [ok |-> TRUE, str |-> FALSE, text |-> SubSeq(t, i, SkipDigits(t, i) - 1),
          next |-> SkipDigits(t, i)]
    ELSE JsonString(t, i)

JsonPut(dict, key, value) ==
    [k \in DOMAIN dict \cup {key} |-> IF k = key THEN value ELSE dict[k]]

\* the members of the object from t[i] on, added to dict
RECURSIVE JsonMembers(_, _, _)
JsonMembers(t, i, dict) ==
    LET key == JsonString(t, SkipWhitespace(t, i))
        colon == SkipWhitespace(t, key.next)
        value == JsonValue(t, SkipWhitespace(t, colon + 1))
        after == SkipWhitespace(t, value.next)
        more == JsonPut(dict, key.text, [str |-> value.str, text |-> value.text])
    IN  IF ~key.ok \/ colon > Len(t) \/ CharAt(t, colon) # ":" THEN JSONDecodeError
        ELSE IF ~value.ok \/ after > Len(t) THEN JSONDecodeError
        ELSE IF CharAt(t, after) = "," THEN JsonMembers(t, after + 1, more)
        ELSE IF CharAt(t, after) = "}" /\ after = Len(t) THEN [raised |-> FALSE, dict |-> more]
        ELSE JSONDecodeError

json_loads(t) ==
    IF t = "" \/ CharAt(t, 1) # "{" THEN JSONDecodeError
    ELSE IF SkipWhitespace(t, 2) = Len(t) /\ CharAt(t, Len(t)) = "}"
    THEN [raised |-> FALSE, dict |-> <<>>]
    ELSE JsonMembers(t, 2, <<>>)

NoTemplates == [none |-> TRUE, dict |-> <<>>]

\* generate_templates, lines 110-127, for the response of call_ollama
generate_templates(response) ==
    IF response.none THEN NoTemplates
    ELSE LET start_idx == Find(response.text, "{", 1)
             end_idx == RFind(response.text, "}")
             loaded == json_loads(SubSeq(response.text, start_idx, end_idx))
         IN  IF start_idx # 0 /\ end_idx # 0 /\ ~loaded.raised
             THEN [none |-> FALSE, dict |-> loaded.dict]
             ELSE NoTemplates

\* config.py, validate_json_data, lines 81-90: is_valid
required_keys == {"SKILL_MD", "RULE_MD", "README_MD"}
validate_json_data(data) == ~data.none /\ required_keys \subseteq DOMAIN data.dict

\* config.py, safe_slug, lines 31-40, for ASCII text
RECURSIVE KeepWordSpaceHyphen(_)
KeepWordSpaceHyphen(t) ==
    IF t = "" THEN ""
    ELSE (IF CharAt(t, 1) \in CharsOf(UPPER \o LOWER \o DIGITS \o "_-") \cup WHITESPACE
          THEN CharAt(t, 1) ELSE "")
         \o KeepWordSpaceHyphen(Rest(t))
RECURSIVE Hyphenate(_)
Hyphenate(t) ==
    IF t = "" THEN ""
    ELSE IF CharAt(t, 1) \in WHITESPACE \cup {"-"}
    THEN IF Len(t) > 1 /\ CharAt(t, 2) \in WHITESPACE \cup {"-"}
         THEN Hyphenate(Rest(t)) ELSE "-" \o Hyphenate(Rest(t))
    ELSE CharAt(t, 1) \o Hyphenate(Rest(t))
safe_slug(text) == Hyphenate(str_lower(strip(KeepWordSpaceHyphen(text))))

\* the files under GLOBAL_LIBRARY_PATH after open(path, "w") and write(text)
WriteFile(files, path, text) ==
    [p \in DOMAIN files \cup {path} |-> IF p = path THEN text ELSE files[p]]

\* atomic_write, lines 141-146: the temporary file is written and renamed; a
\* content that is no str raises TypeError once the temporary file is open
bridge_atomic_write(written, path, content) ==
    IF written.raised # "" THEN written
    ELSE IF content.str
    THEN [raised |-> "", files |-> WriteFile(written.files, path, content.text)]
    ELSE [raised |-> "TypeError", files |-> WriteFile(written.files, path \o ".tmp", "")]

\* lines 188-198 of main: the decision and --dry-run let main go on
\* Mutant: only a rejection stops main.
Proceeds_UnlessRejected(decision, dry) == decision # "REJECT" /\ ~dry

Proceeds(decision, dry) ==
    /\ ~(decision = "REJECT" /\ ~dry)
    /\ ~(decision = "UNKNOWN" /\ ~dry)
    /\ ~dry

\* --skill
Skills == {"Agent Loop", "../Etc Passwd"}

\* text n times
RECURSIVE Times(_, _)
Times(text, n) == IF n = 0 THEN "" ELSE text \o Times(text, n - 1)

\* --source: no file, an empty file, a report that names the skill, one that
\* does not, and one with more lines after the name than are kept
Sources ==
    {[exists |-> FALSE, content |-> ""],
     [exists |-> TRUE, content |-> ""],
     [exists |-> TRUE, content |-> "# Notes\nThe agent loop retries\nwith backoff"],
     [exists |-> TRUE, content |-> "# Notes\nnothing of it"],
     [exists |-> TRUE, content |-> "Agent Loop" \o Times("\n-", 60)]}

\* what `ollama run` prints for the evaluation prompt
EvaluationStdouts ==
    {"", "DECISION: [PROMOTE]\nREASONING: it repeats", "DECISION: [promote]",
     "DECISION: [REJECT]", "Some text\nDECISION: [REJECT]\nMore text", "No decision here",
     "DECISION: [MAYBE]", "1. DECISION: [PROMOTE]", "DECISION:\n [PROMOTE]",
     "DECISION: [REJECT]\nDECISION: [PROMOTE]",
     "<think>DECISION: [REJECT]</think>\nDECISION: [PROMOTE]"}
EvaluationWorlds == [health : BOOLEAN, ends : ProcessEnds, stdout : EvaluationStdouts]

\* what `ollama run` prints for the generation prompt
ALL_KEYS == "{\"SKILL_MD\": \"# Skill\", \"RULE_MD\": \"# Rule\", \"README_MD\": \"# Playbook\"}"
TemplateStdouts ==
    {"", "no json", ALL_KEYS, "Here it is:\n" \o ALL_KEYS \o "\nDone.",
     ALL_KEYS \o " Replace {slug}.", "{}", "} {", "{not json}",
     "{\"SKILL_MD\": \"# Skill\"}",
     "{\"SKILL_MD\": \"# Skill\", \"RULE_MD\": 1, \"README_MD\": \"# Playbook\"}",
     "{\"SKILL_MD\": 1, \"RULE_MD\": \"# Rule\", \"README_MD\": \"# Playbook\", \"EXTRA\": \"x\"}"}
TemplateWorlds == [health : BOOLEAN, ends : ProcessEnds, stdout : TemplateStdouts]

\* what GLOBAL_LIBRARY_PATH holds before the run
LibraryBefore ==
    {<<>>, [p \in {"claude-skills/agent-loop/SKILL.md"} |-> "# Old skill"]}

InitBridge ==
    /\ LIBRARY_DIR_exists = FALSE
    /\ LIBRARY_DIR_listable = FALSE
    /\ directory = {}
    /\ corpus = <<>>
    /\ mock = NoMock
    /\ ProcessInit
    /\ TEMP_DIR = <<>>
    /\ VideoInit
    /\ bridge_pc = "idle"
    /\ dry_run = FALSE
    /\ skill = ""
    /\ context = None
    /\ evaluation = None
    /\ templates = NoTemplates
    /\ skill_files \in LibraryBefore
    /\ LibrarianInit
    /\ NoQueueNoIndex

NotBridge ==
    <<world_vars, AggregationVars, twice_vars, thread_vars, video_vars, librarian_vars,
      main_pc, synthesis_report, artifact>>

\* main returns
BridgeReturns ==
    /\ bridge_pc' = "returned"
    /\ exit_status' = "0"

\* lines 155-169 of main: the arguments are parsed and the context is read
bridge_main ==
    /\ main_pc = "started"
    /\ bridge_pc = "idle"
    /\ \E source \in Sources, name \in Skills, dry \in BOOLEAN :
         /\ skill' = name
         /\ dry_run' = dry
         /\ context' = extract_skill_data(source, name)
    /\ IF ~Truthy(context') THEN BridgeReturns
       ELSE bridge_pc' = "evaluate" /\ UNCHANGED exit_status
    /\ UNCHANGED <<NotBridge, OLLAMA_HEALTH_VERIFIED, evaluation, templates, skill_files>>

\* lines 171-198 of main: the evaluation, the decision and the gate
bridge_evaluate ==
    /\ bridge_pc = "evaluate"
    /\ \E world \in EvaluationWorlds :
         LET call == call_ollama(OLLAMA_HEALTH_VERIFIED, world)
         IN  /\ OLLAMA_HEALTH_VERIFIED' = call.verified
             /\ evaluation' = call.out
    /\ IF evaluation'.none \/ ~Proceeds(parse_decision(evaluation'), dry_run)
       THEN BridgeReturns
       ELSE bridge_pc' = "generate" /\ UNCHANGED exit_status
    /\ UNCHANGED <<NotBridge, dry_run, skill, context, templates, skill_files>>

\* the three files of a skill, in the order main writes them
SkillPaths(slug) ==
    <<"claude-skills/" \o slug \o "/SKILL.md", "cursor-rules/" \o slug \o "/RULE.md",
      "playbooks/" \o slug \o "/README.md">>

\* lines 200-226 of main: the templates, their validation, the traversal
\* guard and the three writes
bridge_generate ==
    /\ bridge_pc = "generate"
    /\ \E world \in TemplateWorlds :
         LET call == call_ollama(OLLAMA_HEALTH_VERIFIED, world)
         IN  /\ OLLAMA_HEALTH_VERIFIED' = call.verified
             /\ templates' = generate_templates(call.out)
    /\ LET paths == SkillPaths(safe_slug(skill))
           first == bridge_atomic_write([raised |-> "", files |-> skill_files],
                                        paths[1], templates'.dict["SKILL_MD"])
           second == bridge_atomic_write(first, paths[2], templates'.dict["RULE_MD"])
           third == bridge_atomic_write(second, paths[3], templates'.dict["README_MD"])
       IN  IF templates'.none \/ templates'.dict = <<>> \/ ~validate_json_data(templates')
           THEN BridgeReturns /\ UNCHANGED skill_files
           ELSE IF \E k \in 1..3 : ~is_relative_to(paths[k])
           THEN BridgeReturns /\ UNCHANGED skill_files
           ELSE /\ skill_files' = third.files
                /\ IF third.raised # ""
                   THEN bridge_pc' = "raised" /\ exit_status' = "1"
                   ELSE BridgeReturns
    /\ UNCHANGED <<NotBridge, dry_run, skill, context, evaluation>>

NextBridge ==
    \/ check_environment
    \/ bridge_main
    \/ bridge_evaluate
    \/ bridge_generate

SpecBridge == InitBridge /\ [][NextBridge]_vars

(***************************************************************************)
(* librarian.py: a video is analyzed, the report is saved, the queue and   *)
(* the index are updated.                                                  *)
(***************************************************************************)
\* datetime.now().strftime("%Y-%m-%d") on the day of the run
TODAY == "2026-01-01"

\* lines 355-359 and 155-159: the upload date as YYYY-MM-DD, or today
formatted_date(date_str) ==
    IF Len(date_str) = 8
    THEN SubSeq(date_str, 1, 4) \o "-" \o SubSeq(date_str, 5, 6) \o "-" \o SubSeq(date_str, 7, 8)
    ELSE TODAY

\* text[:n]
Prefix(text, n) == SubSeq(text, 1, Min(Len(text), n))

\* save_to_library, lines 160-164: the name of the report
ReportName(data, date_str) ==
    formatted_date(date_str) \o "_" \o safe_slug(data.channel) \o "_"
    \o Prefix(safe_slug(data.title), 40) \o "_" \o Prefix(safe_slug(data.video_id), 8) \o ".md"

\* str(LIBRARY_DIR / report_name)
PathIn(report_name) == "library/" \o report_name

\* save_to_library, lines 176-202: the library with the report written; of
\* the content, the title and the analysis are kept
save_to_library(library, data, date_str, text) ==
    WriteFile(library, ReportName(data, date_str), "# [[" \o data.title \o "]]\n\n" \o text \o "\n")

\* analyze_with_ollama, lines 144-148: the new health flag, and the analysis
\* or None
analyze_with_ollama(verified, world) ==
    LET call == run_ollama_command(verified, world)
    IN  [verified |-> call.verified,
         out |-> IF call.out.raised # "" THEN None ELSE Some(call.out.value)]

\* config/categories.yaml: absent, or the categories and the default one
NoCategories == [exists |-> FALSE, categories |-> <<>>, default_category |-> [id |-> "", name |-> ""]]
MISCELLANEOUS == [id |-> "miscellaneous", name |-> "Miscellaneous"]
CategoryConfigs ==
    {NoCategories,
     [exists |-> TRUE,
      categories |-> <<[id |-> "agents", name |-> "Agents", keywords |-> <<"agent", "loop">>],
                       [id |-> "tools", name |-> "Tools", keywords |-> <<"cli">>]>>,
      default_category |-> MISCELLANEOUS]}

\* get_category, lines 204-219, for a video without tags
get_category(title, config) ==
    IF ~config.exists THEN MISCELLANEOUS
    ELSE LET text_to_check == str_lower(title \o " ")
             hits == {k \in 1..Len(config.categories) :
                        \E w \in 1..Len(config.categories[k].keywords) :
                            In(str_lower(config.categories[k].keywords[w]), text_to_check)}
             cat == config.categories[CHOOSE k \in hits : \A j \in hits : k <= j]
         IN  IF hits = {} THEN config.default_category
             ELSE [id |-> cat.id, name |-> cat.name]

\* f.readlines(): the lines with their line ends
RECURSIVE readlines(_)
readlines(text) ==
    LET cut == Find(text, "\n", 1)
    IN  IF text = "" THEN <<>>
        ELSE IF cut = 0 THEN <<text>>
        ELSE <<SubSeq(text, 1, cut)>> \o readlines(SubSeq(text, cut + 1, Len(text)))

\* text.split(sep)[0]
BeforeFirst(text, sep) ==
    IF Find(text, sep, 1) = 0 THEN text ELSE SubSeq(text, 1, Find(text, sep, 1) - 1)

priority_marker == "### Priority Queue"
analyzed_marker == "## Videos Analyzed"

\* line 295
clean_url(u) == BeforeFirst(BeforeFirst(u, "?si="), "&si=")

\* lines 305-308: the entry of an analyzed video
QueueEntry(u, title, channel, filepath) ==
    "- [x] **\"" \o title \o "\"** by " \o channel \o "\n"
    \o "  - **Date analyzed:** " \o TODAY \o "\n"
    \o "  - **URL:** " \o u \o "\n"
    \o "  - **Location:** " \o TICK \o filepath \o TICK \o "\n\n"

\* the loop of update_queue, lines 297-314, from line k of lines on
RECURSIVE QueueLoop(_, _, _, _, _, _, _)
QueueLoop(lines, k, in_priority, found, new_lines, cleaned, entry) ==
    IF k > Len(lines) THEN [found |-> found, new_lines |-> new_lines]
    ELSE IF In(priority_marker, lines[k])
    THEN QueueLoop(lines, k + 1, TRUE, found, Append(new_lines, lines[k]), cleaned, entry)
    ELSE IF In(analyzed_marker, lines[k])
    THEN QueueLoop(lines, k + 1, FALSE, found,
                   IF found THEN new_lines \o <<lines[k], entry>>
                   ELSE Append(new_lines, lines[k]),
                   cleaned, entry)
    ELSE IF in_priority /\ In(cleaned, lines[k])
    THEN QueueLoop(lines, k + 1, in_priority, TRUE, new_lines, cleaned, entry)
    ELSE QueueLoop(lines, k + 1, in_priority, found, Append(new_lines, lines[k]),
                   cleaned, entry)

\* update_queue, lines 278-320: VIDEOS_QUEUE.md after the call
update_queue(file, u, title, channel, filepath) ==
    IF file.none THEN file
    ELSE LET loop == QueueLoop(readlines(file.text), 1, FALSE, FALSE, <<>>, clean_url(u),
                               QueueEntry(u, title, channel, filepath))
         IN  IF loop.found THEN Some(join("", loop.new_lines)) ELSE file

\* index.yaml: missing, or what yaml.safe_load makes of it: nothing ("empty"),
\* a YAMLError ("invalid"), a mapping without entries ("no_entries"), or the
\* entries
NoIndex == [kind |-> "missing", entries |-> <<>>]
IndexOf(entries) == [kind |-> "entries", entries |-> entries]

\* the place of an entry in a list sorted by date, latest first, behind the
\* entries of its date
RECURSIVE InsertByDate(_, _)
InsertByDate(entries, e) ==
    IF entries = <<>> THEN <<e>>
    ELSE IF StrLess(Head(entries).date, e.date) THEN <<e>> \o entries
    ELSE <<Head(entries)>> \o InsertByDate(Tail(entries), e)

\* entries.sort(key=lambda x: x.get("date", ""), reverse=True), a stable sort
RECURSIVE sort_by_date(_)
sort_by_date(entries) ==
    IF entries = <<>> THEN <<>>
    ELSE InsertByDate(sort_by_date(SubSeq(entries, 1, Len(entries) - 1)),
                      entries[Len(entries)])

\* lines 266-269: the lines of the entries of a category
RECURSIVE EntryLines(_, _)
EntryLines(entries, id) ==
    IF entries = <<>> THEN ""
    ELSE (IF Head(entries).category_id = id
          THEN "- [[" \o Head(entries).title \o "]] (" \o Head(entries).channel
               \o ") - *Analyzed " \o Head(entries).date \o "*\n"
          ELSE "")
         \o EntryLines(Tail(entries), id)

\* lines 264-270: the sections of the categories
RECURSIVE CategorySections(_, _)
CategorySections(categories_config, entries) ==
    IF categories_config = <<>> THEN ""
    ELSE (IF EntryLines(entries, Head(categories_config).id) # ""
          THEN "## " \o Head(categories_config).name \o "\n"
               \o EntryLines(entries, Head(categories_config).id) \o "\n"
          ELSE "")
         \o CategorySections(Tail(categories_config), entries)

\* lines 251-270: the rendered index (its title without the pictograph)
RenderIndex(entries, config) ==
    "# YouTube Knowledge Library\n\n"
    \o CategorySections(IF config.exists
                        THEN Append([k \in 1..Len(config.categories) |->
                                        [id |-> config.categories[k].id,
                                         name |-> config.categories[k].name]],
                                    config.default_category)
                        ELSE <<>>,
                        entries)

\* Mutant: the duplicate check is left out.
IsDuplicate_Never(entries, entry_data) == FALSE

\* lines 237-240
IsDuplicate(entries, entry_data) == \E k \in 1..Len(entries) : entries[k].url = entry_data.url

\* update_index, lines 221-276: index.yaml and 00_Index_Library.md after the
\* call, and what it raised
update_index(index, md, entry_data, config) ==
    LET entries == IF index.kind = "entries" THEN index.entries ELSE <<>>
        sorted_entries == sort_by_date(Append(entries, entry_data))
    IN  IF index.kind = "no_entries" THEN [raised |-> "KeyError", yaml |-> index, md |-> md]
        ELSE IF IsDuplicate(entries, entry_data) THEN [raised |-> "", yaml |-> index, md |-> md]
        ELSE [raised |-> "", yaml |-> IndexOf(sorted_entries),
              md |-> Some(RenderIndex(sorted_entries, config))]

\* the youtube_regex of main, lines 336-338:
\* ^(https?://)?(www\.)?(youtube\.com|youtu\.?be)/.+$
StripPrefix(text, prefixes) ==
    IF \E p \in prefixes : startswith(text, p)
    THEN LET p == CHOOSE q \in prefixes : startswith(text, q)
         IN  SubSeq(text, Len(p) + 1, Len(text))
    ELSE text
youtube_regex_match(u) ==
    LET host == StripPrefix(StripPrefix(u, {"https://", "http://"}), {"www."})
    IN  \E h \in {"youtube.com/", "youtube/", "youtu.be/"} :
            LET path == SubSeq(host, Len(h) + 1, Len(host))
                line == IF endswith(path, "\n") THEN SubSeq(path, 1, Len(path) - 1) ELSE path
            IN  startswith(host, h) /\ line # "" /\ ~In("\n", line)

\* sys.argv[1:]
Argvs == {<<>>, <<"https://example.com/watch">>, <<"youtu.be/">>} \cup {<<u>> : u \in URLS}

\* VIDEOS_QUEUE.md before the run: absent, the usual arrangement, the
\* analyzed videos listed first
USUAL_QUEUE ==
    "# Queue\n### Priority Queue\n- [ ] https://youtu.be/a\n- [ ] https://youtu.be/b\n\n"
    \o "## Videos Analyzed\n- [x] old\n"
ANALYZED_FIRST ==
    "## Videos Analyzed\n- [x] old\n\n### Priority Queue\n- [ ] https://youtu.be/a\n"
QueuesOfMain == {None, Some(USUAL_QUEUE), Some(ANALYZED_FIRST)}

\* an entry of the index
Entry(u, title, date, id) ==
    [title |-> title, channel |-> "Unknown_Channel", date |-> date, url |-> u,
     category_id |-> id, filepath |-> PathIn(date \o "_unknown_channel_" \o safe_slug(title) \o "_x.md")]

\* index.yaml before the run
IndexesOfMain ==
    {NoIndex, [kind |-> "no_entries", entries |-> <<>>],
     IndexOf(<<Entry("https://youtu.be/a", "Agents", "2025-12-31", "agents")>>)}

InitLibrarian ==
    /\ LIBRARY_DIR_exists = FALSE
    /\ LIBRARY_DIR_listable = FALSE
    /\ directory = {}
    /\ corpus = <<>>
    /\ mock = NoMock
    /\ ProcessInit
    /\ TEMP_DIR = <<>>
    /\ VideoInit
    /\ BridgeInit
    /\ LibrarianInit
    /\ queue_file \in QueuesOfMain
    /\ index_yaml \in IndexesOfMain
    /\ index_md = None

NotLibrarian ==
    <<world_vars, AggregationVars, twice_vars, thread_vars, bridge_vars, main_pc,
      synthesis_report, artifact>>

\* sys.exit(1)
LibrarianExits ==
    /\ librarian_pc' = "exited"
    /\ exit_status' = "1"

\* lines 329-341 of main: the argument and the URL guard
librarian_main ==
    /\ main_pc = "started"
    /\ librarian_pc = "idle"
    /\ \E argv \in Argvs :
         IF argv = <<>> \/ ~youtube_regex_match(argv[1])
         THEN LibrarianExits /\ UNCHANGED url
         ELSE /\ librarian_pc' = "data"
              /\ url' = argv[1]
              /\ UNCHANGED exit_status
    /\ UNCHANGED <<NotLibrarian, OLLAMA_HEALTH_VERIFIED, TEMP_DIR, video_pc, metadata,
                   video_data, video_exception, analysis, saved, queue_file, index_yaml,
                   index_md>>

\* line 343 of main: get_video_data(url), step by step
librarian_get_video_data ==
    /\ librarian_pc = "data"
    /\ \/ get_video_data /\ url' = url
       \/ FetchMetadata
       \/ FetchSubtitles
       \/ ReadTranscript

\* line 351 of main
\* Mutant: main goes on without an analysis.
AnalysisFailed_Ignored(text) == FALSE

AnalysisFailed(text) == text.none

\* lines 343-353 of main: the data is there or main exits; the analysis is
\* made or main exits
librarian_analyze ==
    /\ librarian_pc = "data"
    /\ video_pc \in {"returned", "raised"}
    /\ IF video_pc = "raised"
       THEN /\ librarian_pc' = "raised"
            /\ exit_status' = "1"
            /\ UNCHANGED <<OLLAMA_HEALTH_VERIFIED, analysis>>
       ELSE IF video_data.none
       THEN LibrarianExits /\ UNCHANGED <<OLLAMA_HEALTH_VERIFIED, analysis>>
       ELSE /\ \E world \in Worlds :
                 LET call == analyze_with_ollama(OLLAMA_HEALTH_VERIFIED, world)
                 IN  /\ OLLAMA_HEALTH_VERIFIED' = call.verified
                     /\ analysis' = call.out
            /\ IF AnalysisFailed(analysis')
               THEN LibrarianExits
               ELSE librarian_pc' = "save" /\ UNCHANGED exit_status
    /\ UNCHANGED <<NotLibrarian, video_vars, saved, queue_file, index_yaml, index_md>>

\* lines 355-376 of main: the report is saved, the queue and the index are
\* updated
librarian_save ==
    /\ librarian_pc = "save"
    /\ \E config \in CategoryConfigs :
         LET date_str == GetOr(metadata.dict, "upload_date", "")
             report_name == ReportName(video_data, date_str)
             entry_data == [title |-> video_data.title, channel |-> video_data.channel,
                            date |-> formatted_date(date_str), url |-> url,
                            category_id |-> get_category(video_data.title, config).id,
                            filepath |-> PathIn(report_name)]
             index == update_index(index_yaml, index_md, entry_data, config)
         IN  /\ saved' = save_to_library(saved, video_data, date_str, analysis.text)
             /\ queue_file' = update_queue(queue_file, url, video_data.title,
                                           video_data.channel, PathIn(report_name))
             /\ index_yaml' = index.yaml
             /\ index_md' = index.md
             /\ IF index.raised # ""
                THEN librarian_pc' = "raised" /\ exit_status' = "1"
                ELSE librarian_pc' = "returned" /\ exit_status' = "0"
    /\ UNCHANGED <<NotLibrarian, OLLAMA_HEALTH_VERIFIED, video_vars, analysis>>

NextLibrarian ==
    \/ check_environment
    \/ librarian_main
    \/ librarian_get_video_data
    \/ librarian_analyze
    \/ librarian_save

SpecLibrarian == InitLibrarian /\ [][NextLibrarian]_vars

(***************************************************************************)
(* update_queue, called on its own.                                        *)
(***************************************************************************)
\* VIDEOS_QUEUE.md before the calls, by the arrangement of its markers
NO_ANALYZED == "### Priority Queue\n- [ ] https://youtu.be/a\n- [ ] https://youtu.be/b\n"
NO_PRIORITY == "# Queue\n- [ ] https://youtu.be/a\n## Videos Analyzed\n- [x] old\n"
NOT_QUEUED == "### Priority Queue\n- [ ] https://youtu.be/c\n\n## Videos Analyzed\n"
ANALYZED_BEFORE == "### Priority Queue\n## Videos Analyzed\n- [x] https://youtu.be/a\n"
ANALYZED_TWICE ==
    "## Videos Analyzed\n### Priority Queue\n- https://youtu.be/a?si=abc\n## Videos Analyzed\n"
MARKER_LAST == "### Priority Queue\n- [ ] https://youtu.be/b\n## Videos Analyzed"
QueueFiles ==
    {None, Some(""), Some(USUAL_QUEUE), Some(ANALYZED_FIRST), Some(NO_ANALYZED),
     Some(NO_PRIORITY), Some(NOT_QUEUED), Some(ANALYZED_BEFORE), Some(ANALYZED_TWICE),
     Some(MARKER_LAST)}

\* the url of a call, as it was shared
SharedUrls == URLS \cup {"https://youtu.be/a?si=xyz"}

\* the videos of the calls
Videos ==
    {[none |-> FALSE, title |-> "Agents", channel |-> "Unknown_Channel", url |-> u,
      video_id |-> "a1", transcript_of |-> ""] : u \in SharedUrls}
    \cup {[none |-> FALSE, title |-> "CLI Tools", channel |-> "Dev", url |-> "https://youtu.be/b",
           video_id |-> "unknown", transcript_of |-> ""]}

InitQueue ==
    /\ LIBRARY_DIR_exists = FALSE
    /\ LIBRARY_DIR_listable = FALSE
    /\ directory = {}
    /\ corpus = <<>>
    /\ mock = NoMock
    /\ ProcessInit
    /\ TEMP_DIR = <<>>
    /\ VideoInit
    /\ BridgeInit
    /\ LibrarianInit
    /\ queue_file \in QueueFiles
    /\ index_yaml = NoIndex
    /\ index_md = None

\* update_queue(url, title, channel, filepath) for a video
update_queue_call ==
    /\ \E data \in Videos :
         /\ video_data' = data
         /\ url' = data.url
         /\ queue_file' = update_queue(queue_file, data.url, data.title, data.channel,
                                       PathIn(ReportName(data, "")))
    /\ UNCHANGED <<NotLibrarian, OLLAMA_HEALTH_VERIFIED, exit_status, TEMP_DIR, video_pc,
                   metadata, video_exception, librarian_pc, analysis, saved, index_yaml,
                   index_md>>

NextQueue == update_queue_call

SpecQueue == InitQueue /\ [][NextQueue]_vars

(***************************************************************************)
(* update_index, called on its own, again and again.                       *)
(***************************************************************************)
\* the most entries of an index that update_index is still called on
MaxEntries == 3

\* index.yaml before the calls, without two entries of one url
Indexes ==
    {NoIndex, [kind |-> "empty", entries |-> <<>>], [kind |-> "invalid", entries |-> <<>>],
     [kind |-> "no_entries", entries |-> <<>>], IndexOf(<<>>),
     IndexOf(<<Entry("https://youtu.be/a", "Agents", "2025-12-31", "agents")>>),
     IndexOf(<<Entry("https://youtu.be/c", "CLI Tools", "2025-11-30", "tools"),
               Entry("https://youtu.be/a", "Agents", "2026-01-01", "miscellaneous")>>)}

\* entry_data of the calls
Entries ==
    {Entry(u, "Agents", date, id) :
        u \in URLS, date \in {TODAY, "2025-12-31"}, id \in {"agents", "miscellaneous"}}

InitIndex ==
    /\ LIBRARY_DIR_exists = FALSE
    /\ LIBRARY_DIR_listable = FALSE
    /\ directory = {}
    /\ corpus = <<>>
    /\ mock = NoMock
    /\ ProcessInit
    /\ TEMP_DIR = <<>>
    /\ VideoInit
    /\ BridgeInit
    /\ LibrarianInit
    /\ queue_file = None
    /\ index_yaml \in Indexes
    /\ index_md \in {None, Some("# Index\n")}

\* update_index(entry_data)
update_index_call ==
    /\ Len(index_yaml.entries) <= MaxEntries
    /\ \E entry_data \in Entries, config \in CategoryConfigs :
         LET index == update_index(index_yaml, index_md, entry_data, config)
         IN  /\ url' = entry_data.url
             /\ index_yaml' = index.yaml
             /\ index_md' = index.md
             /\ librarian_pc' = IF index.raised # "" THEN "raised" ELSE "returned"
    /\ UNCHANGED <<NotLibrarian, OLLAMA_HEALTH_VERIFIED, exit_status, TEMP_DIR, video_pc,
                   metadata, video_data, video_exception, analysis, saved, queue_file>>

NextIndex == update_index_call

SpecIndex == InitIndex /\ [][NextIndex]_vars

(***************************************************************************)
(* aggregate_library over a library of reports that save_to_library named. *)
(***************************************************************************)
\* the names save_to_library gives to the reports of the videos
SavedNames == {ReportName(data, "") : data \in Videos}

ReportFiles == {Doc("topic/ai", 92), Doc("", 127900), Doc("topic/diet", 127991), Undecodable}

InitReports ==
    /\ LIBRARY_DIR_exists = TRUE
    /\ LIBRARY_DIR_listable = TRUE
    /\ directory \in SUBSET (SavedNames \cup {"00_Index_Library.md"})
    /\ corpus \in [directory -> ReportFiles]
    /\ \A f \in directory : ~IsCandidate(f) => corpus[f] = Doc("topic/ai", 92)
    /\ mock = NoMock
    /\ ProcessInit
    /\ TEMP_DIR = <<>>
    /\ VideoInit
    /\ BridgeInit
    /\ LibrarianInit
    /\ NoQueueNoIndex

SpecReports == InitReports /\ [][Next]_vars

TypeOK ==
    /\ pc \in {"idle", "ready", "exited", "loop", "returned", "raised"}
    /\ total_chars >= 0
    /\ file_count = Len(sections)

(***************************************************************************)
(* Reading the run off its blob.                                           *)
(***************************************************************************)
\* the budget in characters
Ceiling == CHARS_PER_TOKEN * MAX_TOKENS

Max(a, b) == IF a >= b THEN a ELSE b
StartsWith(s, t) == Slice(s, Len(t)) = Lit(t)

\* the section is the document's header followed by its content, verbatim
IsRaw(sec) ==
    /\ StartsWith(sec.text, RawHeader(sec.filename))
    /\ DropFirst(sec.text, Len(RawHeader(sec.filename))) = sec.content
IsSummary(sec) == StartsWith(sec.text, SummaryHeader(sec.filename))
IsTruncated(sec) == StartsWith(sec.text, TruncatedHeader(sec.filename))

\* the length of the first i sections together
RECURSIVE BlobThrough(_)
BlobThrough(i) == IF i = 0 THEN 0 ELSE BlobThrough(i - 1) + StrLen(sections[i].text)

\* section i stands in the blob, right after the sections before it
SectionInBlob(i) ==
    Slice(DropFirst(aggregated_text, BlobThrough(i - 1)), StrLen(sections[i].text))
        = sections[i].text

\* the running total the rules of the budget give after the first i sections
RECURSIVE Accounted(_)
Accounted(i) ==
    IF i = 0 THEN 0
    ELSE Accounted(i - 1)
         + (IF IsRaw(sections[i]) THEN StrLen(sections[i].content) + HEADER_PADDING
            ELSE StrLen(sections[i].text))

\* a step of the loop that appends a section, and the section it appends
Appends == pc = "loop" /\ Len(sections') = Len(sections) + 1
Appended == sections'[Len(sections')]
\* the blob grows by exactly the appended section
GrowsByAppended ==
    /\ Slice(aggregated_text', StrLen(aggregated_text)) = aggregated_text
    /\ DropFirst(aggregated_text', StrLen(aggregated_text)) = Appended.text

\* case-insensitive occurrence of pat in text
OccursIgnoringCase(pat, text) ==
    \E i \in 0..(Len(text) - Len(pat)) :
        \A j \in 1..Len(pat) : LowerChar[CharAt(text, i + j)] = LowerChar[CharAt(pat, j)]

\* the topic filter as the specification states it
PassesFilter(filter, name, content) ==
    \/ OccursIgnoringCase("topic/" \o filter, Clip(content, Len(filter) + 6))
    \/ OccursIgnoringCase(filter, name)

\* the index exclusion pattern: one or more digits, then _Index_
IsIndexName(f) ==
    \E n \in 1..Len(f) :
        /\ \A i \in 1..n : CharAt(f, i) \in CharsOf(DIGITS)
        /\ SubSeq(f, n + 1, n + 7) = "_Index_"

HasSection(f) == \E i \in 1..Len(sections) : sections[i].filename = f

(***************************************************************************)
(* C1.  Budget invariant: the estimated token count of the blob            *)
(* (characters / 4) never exceeds MAX_TOKENS + 50 by more than the         *)
(* overflow of the largest raw document, the overflow of a raw document    *)
(* being what the blob holds beyond the ceiling once the document is in.   *)
(* Stated in characters.                                                   *)
(***************************************************************************)
LargestRawOverflow ==
    LET over == {Max(0, BlobThrough(i) - Ceiling) :
                    i \in {j \in 1..Len(sections) : IsRaw(sections[j])}}
    IN  IF over = {} THEN 0 ELSE CHOOSE m \in over : \A o \in over : o <= m

C1_BudgetInvariant ==
    StrLen(aggregated_text) <= CHARS_PER_TOKEN * (MAX_TOKENS + 50) + LargestRawOverflow

(***************************************************************************)
(* C2.  Inclusion rule: a surviving document is included raw, verbatim,    *)
(* exactly when its estimated tokens are at most the remaining budget      *)
(* (equality included); otherwise the completion is asked for a summary.   *)
(***************************************************************************)
C2_InclusionRule ==
    [][Appends =>
        /\ IsRaw(Appended) <=> StrLen(Appended.content) <= Ceiling - total_chars
        /\ Appended.asked <=> ~(StrLen(Appended.content) <= Ceiling - total_chars)]_vars

\* a document of exactly the whole budget went in raw
C2_Witness ==
    /\ Len(sections) >= 1
    /\ StrLen(sections[1].content) = Ceiling
    /\ IsRaw(sections[1])

(***************************************************************************)
(* C3.  Truncation fallback: when the completion fails for a document that *)
(* overflows the budget, the blob holds for it a section made of a prefix  *)
(* of its content of at most 2000 characters and then the truncation       *)
(* marker.                                                                 *)
(***************************************************************************)
IsTruncationOf(sec) ==
    LET body == DropFirst(sec.text, Len(TruncatedHeader(sec.filename)))
        n == StrLen(body) - Len(TRUNCATION_MARKER)
    IN  /\ IsTruncated(sec)
        /\ n >= 0
        /\ n <= 2000
        /\ Slice(body, n) = Slice(sec.content, n)
        /\ DropFirst(body, n) = Lit(TRUNCATION_MARKER)

C3_TruncationFallback ==
    \A i \in 1..Len(sections) :
        sections[i].error # "" => IsTruncationOf(sections[i]) /\ SectionInBlob(i)

\* a document longer than the cutoff was truncated
C3_Witness ==
    \E i \in 1..Len(sections) :
        sections[i].error # "" /\ StrLen(sections[i].content) > 2000

(***************************************************************************)
(* C4.  A failure of the completion never leaves aggregate_library and     *)
(* never ends the run: the document is truncated, the loop goes on to the  *)
(* next candidate, and a run that returns has opened every candidate.      *)
(***************************************************************************)
C4_CompletionFailureAbsorbed ==
    /\ exception \notin {"RuntimeError", "FileNotFoundError"}
    /\ \A i \in 1..Len(sections) :
          sections[i].error # "" => IsTruncated(sections[i]) /\ i < pos
    /\ (pc = "loop" /\ pos <= Len(all_files)) =>
          all_files[pos] \in DOMAIN corpus /\ all_files[pos] \notin opened
    /\ (pc = "returned" /\ LIBRARY_DIR_exists) =>
          opened = {all_files[k] : k \in 1..Len(all_files)}

\* the run returned although the completion failed for a document that was
\* not the last
C4_Witness ==
    /\ pc = "returned"
    /\ \E i \in 1..Len(sections) : sections[i].error # "" /\ i < Len(sections)

(***************************************************************************)
(* C5.  Raw accounting.  As claimed: a raw document is appended verbatim   *)
(* and the running total grows by its estimated tokens plus 50             *)
(* token-equivalents, that is by its length plus 4 * 50 characters.        *)
(***************************************************************************)
C5_RawAccounting_Original ==
    [][(Appends /\ IsRaw(Appended)) =>
        /\ GrowsByAppended
        /\ total_chars' = total_chars + StrLen(Appended.content) + CHARS_PER_TOKEN * 50]_vars

(***************************************************************************)
(* C5, amended.  A raw document is appended verbatim and the running total *)
(* grows by its length plus 50 characters (12.5 token-equivalents).        *)
(***************************************************************************)
C5_RawAccounting ==
    [][(Appends /\ IsRaw(Appended)) =>
        /\ GrowsByAppended
        /\ total_chars' = total_chars + StrLen(Appended.content) + 50]_vars

\* a document that is not empty went in raw
C5_Witness ==
    \E i \in 1..Len(sections) : IsRaw(sections[i]) /\ StrLen(sections[i].content) > 0

(***************************************************************************)
(* C6.  Summary accounting.  As claimed: when a document overflows and the *)
(* completion answers, the summary and not the content is appended, and    *)
(* the running total grows by the estimated tokens of the summary itself.  *)
(***************************************************************************)
Summarized(sec) == sec.asked /\ sec.error = ""

C6_SummaryAccounting_Original ==
    [][(Appends /\ Summarized(Appended)) =>
        /\ Appended.text = Cat(Lit(SummaryHeader(Appended.filename)), Lit(Appended.summary))
        /\ GrowsByAppended
        /\ total_chars' = total_chars + Len(Appended.summary)]_vars

(***************************************************************************)
(* C6, amended.  The summary and not the content is appended, under its    *)
(* header, and the running total grows by the length of the whole appended *)
(* section, header and summary together.                                   *)
(***************************************************************************)
C6_SummaryAccounting ==
    [][(Appends /\ Summarized(Appended)) =>
        /\ StrLen(Appended.content) > Ceiling - total_chars
        /\ Appended.text = Cat(Lit(SummaryHeader(Appended.filename)), Lit(Appended.summary))
        /\ GrowsByAppended
        /\ total_chars' = total_chars + Len(SummaryHeader(Appended.filename))
                                      + Len(Appended.summary)]_vars

\* a document was replaced by a summary that is not empty
C6_Witness ==
    \E i \in 1..Len(sections) :
        /\ Summarized(sections[i])
        /\ sections[i].summary # ""
        /\ SectionInBlob(i)

Processed == {all_files[k] : k \in 1..Min(pos - 1, Len(all_files))}

C8_TopicFilter ==
    category # "" =>
        \A f \in Processed :
            HasSection(f) <=> PassesFilter(category, f, corpus[f].content)

\* with a filter, one document was kept for a tag in another case than the
\* filter's, and one was dropped
C8_Witness ==
    /\ category = "AI"
    /\ \E f \in Processed :
          /\ HasSection(f)
          /\ ~OccursIgnoringCase(category, f)
          /\ ~In("topic/AI", Clip(corpus[f].content, 8))
    /\ \E f \in Processed : ~HasSection(f)

(***************************************************************************)
(* C9.  A document the topic filter rejects changes neither the blob nor   *)
(* the running total nor the count of documents.                           *)
(***************************************************************************)
C9_RejectedLeavesNoTrace ==
    [][(/\ pc = "loop"
        /\ pos' = pos + 1
        /\ category # ""
        /\ ~PassesFilter(category, all_files[pos], corpus[all_files[pos]].content))
       => UNCHANGED <<aggregated_text, total_chars, file_count, sections>>]_vars

\* two documents were kept and one was rejected
C9_Witness ==
    /\ category # ""
    /\ file_count = 2
    /\ \E k \in 1..(pos - 1) : ~HasSection(all_files[k])

(***************************************************************************)
(* C10.  Candidates: the documents of a run are the names that end in .md  *)
(* and do not match the index pattern; a name that matches it is never     *)
(* opened and heads no section of the blob.                                *)
(***************************************************************************)
HeadsSection(f) ==
    LET blob == Clip(aggregated_text, Len(TruncatedHeader(f)))
    IN  \/ In(RawHeader(f), blob)
        \/ In(SummaryHeader(f), blob)
        \/ In(TruncatedHeader(f), blob)

C10_CandidateSelection ==
    /\ pc \in {"loop", "raised"} \/ (pc = "returned" /\ LIBRARY_DIR_exists) =>
          {all_files[k] : k \in 1..Len(all_files)}
              = {f \in directory : endswith(f, ".md") /\ ~IsIndexName(f)}
    /\ \A f \in directory :
          (IsIndexName(f) \/ ~endswith(f, ".md")) =>
              /\ f \notin opened
              /\ ~HasSection(f)
              /\ ~HeadsSection(f)

\* a run over a directory with an index file returned a blob
C10_Witness ==
    /\ pc = "returned"
    /\ \E f \in directory : IsIndexName(f)
    /\ sections # <<>>

(***************************************************************************)
(* C11.  Without a topic filter every eligible document is processed and   *)
(* counted exactly once: while the run goes the count is the number of     *)
(* documents it has been through, each of them with one section, and the   *)
(* count the run reports when it returns is the number of eligible         *)
(* documents of the corpus.                                                *)
(***************************************************************************)
\* the documents of the corpus: names ending in .md that are no index
Eligible ==
    {f \in directory : Len(f) >= 3 /\ SubSeq(f, Len(f) - 2, Len(f)) = ".md"
                                  /\ ~IsIndexName(f)}

SectionsOf(f) == {i \in 1..Len(sections) : sections[i].filename = f}

C11_EveryDocumentCounted ==
    (category = "" /\ pc \in {"loop", "returned"}) =>
        /\ opened \subseteq Eligible
        /\ file_count = Cardinality(opened)
        /\ \A f \in opened : Cardinality(SectionsOf(f)) = 1
        /\ pc = "returned" => file_count = Cardinality(Eligible)

\* three documents, raw and summarized, beside an index and a text file
C11_Witness ==
    /\ pc = "returned"
    /\ category = ""
    /\ file_count = 2
    /\ Cardinality(directory) = 3
    /\ \E i, j \in 1..Len(sections) : sections[i].asked /\ ~sections[j].asked

(***************************************************************************)
(* C12.  Sections appear in the blob in the lexicographic order of their   *)
(* documents' names, whatever the order in which the directory was         *)
(* listed: the names to go through are in strictly ascending order, and    *)
(* section i, which stands in the blob after sections 1..i-1, is of a      *)
(* document whose name precedes those of all later sections.               *)
(***************************************************************************)
\* a < b for Python strings: the first difference decides, a prefix is less
Precedes(a, b) ==
    \E k \in 1..Len(b) :
        /\ k <= Len(a) + 1
        /\ SubSeq(a, 1, k - 1) = SubSeq(b, 1, k - 1)
        /\ k <= Len(a) => Ord[CharAt(a, k)] < Ord[CharAt(b, k)]

C12_NameOrder ==
    /\ \A i, j \in 1..Len(all_files) : i < j => Precedes(all_files[i], all_files[j])
    /\ \A i, j \in 1..Len(sections) :
          i < j => Precedes(sections[i].filename, sections[j].filename)
    /\ \A i \in 1..Len(sections) : SectionInBlob(i)

\* the sections of 1_index_b.md, AI.md and a.md, in this order
C12_Witness ==
    /\ pc = "returned"
    /\ Len(sections) = 3
    /\ sections[1].filename = "1_index_b.md"
    /\ sections[2].filename = "AI.md"
    /\ sections[3].filename = "a.md"
    /\ \A i \in 1..3 : SectionInBlob(i)

(***************************************************************************)
(* C13.  Every surviving document the run has been through has exactly one *)
(* section, standing in the blob, whose header names the document and      *)
(* tells how it went in: DOCUMENT when raw, SUMMARY OF when the completion *)
(* answered, TRUNCATED DOCUMENT when the completion failed.  When the run  *)
(* returns, every surviving document of the corpus has its section.        *)
(***************************************************************************)
Survives(f) ==
    /\ f \in Eligible
    /\ corpus[f].decodable
    /\ category = "" \/ PassesFilter(category, f, corpus[f].content)

HeaderOf(label, f) == Lit("\n\n--- " \o label \o ": " \o f \o " ---\n\n")
HeadedBy(sec, label) ==
    Slice(sec.text, StrLen(HeaderOf(label, sec.filename))) = HeaderOf(label, sec.filename)

\* the label the way the document went in calls for
LabelOf(sec) ==
    IF ~sec.asked THEN "DOCUMENT"
    ELSE IF sec.error = "" THEN "SUMMARY OF"
    ELSE "TRUNCATED DOCUMENT"

C13_OneSectionEach ==
    /\ \A f \in {g \in opened : Survives(g)} :
          /\ Cardinality(SectionsOf(f)) = 1
          /\ \A i \in SectionsOf(f) :
                /\ SectionInBlob(i)
                /\ \A label \in {"DOCUMENT", "SUMMARY OF", "TRUNCATED DOCUMENT"} :
                      HeadedBy(sections[i], label) <=> label = LabelOf(sections[i])
    /\ pc = "returned" => \A f \in directory : Survives(f) => f \in opened

\* a run that returned with one section of each kind
C13_Witness ==
    /\ pc = "returned"
    /\ \E i, j, k \in 1..Len(sections) :
          /\ HeadedBy(sections[i], "DOCUMENT")
          /\ HeadedBy(sections[j], "SUMMARY OF")
          /\ HeadedBy(sections[k], "TRUNCATED DOCUMENT") /\ sections[k].error # ""

(***************************************************************************)
(* C14.  Idempotence: with the corpus unchanged and a completion that      *)
(* answers by its arguments alone, the second of two successive runs       *)
(* starts from an empty blob and a zero total and returns the very blob    *)
(* the first returned.                                                     *)
(***************************************************************************)
C14_Idempotent ==
    run_no = 2 =>
        /\ (pc = "loop" /\ pos = 1) => (aggregated_text = <<>> /\ total_chars = 0)
        /\ pc = "returned" => result = first_blob

\* both runs returned a blob with a raw and a summarized section
C14_Witness ==
    /\ run_no = 2
    /\ pc = "returned"
    /\ result = first_blob
    /\ \E i, j \in 1..Len(sections) :
          /\ ~sections[i].asked
          /\ sections[j].asked /\ sections[j].error = ""

(***************************************************************************)
(* C15.  Corpus unavailable: when LIBRARY_DIR does not exist or cannot be  *)
(* read, a call of aggregate_library returns the empty blob with a zero    *)
(* count and does not raise, having opened no document and asked the       *)
(* completion nothing.                                                     *)
(***************************************************************************)
C15_CorpusUnavailable ==
    ((~LIBRARY_DIR_exists \/ ~LIBRARY_DIR_listable) /\ pc \in {"loop", "returned", "raised"})
        => /\ pc = "returned"
           /\ result = <<>>
           /\ file_count = 0
           /\ opened = {}
           /\ sections = <<>>

(***************************************************************************)
(* C16.  Malformed document: when the content of the document at hand      *)
(* cannot be decoded, the run skips it and goes on to the next document,   *)
(* the blob, the total and the count left as they are; the run is not      *)
(* aborted.                                                                *)
(***************************************************************************)
C16_MalformedSkipped ==
    [][(InLoop /\ ~corpus[filename].decodable)
          => /\ pc' = "loop"
             /\ pos' = pos + 1
             /\ UNCHANGED <<aggregated_text, total_chars, file_count, sections>>]_vars

(***************************************************************************)
(* C17.  Run isolation.  As stated: a run changes no state but its own     *)
(* locals, nothing mutable being shared between runs, and two runs over    *)
(* the same corpus, however interleaved, return the same blob.             *)
(***************************************************************************)
\* a step of the running thread, not a switch of threads
RunStep == ~(parked' = Locals /\ Locals' = parked)
BothReturned == pc = "returned" /\ parked.pc = "returned"

C17_RunIsolation_Original ==
    /\ [][RunStep => /\ parked' = parked
                     /\ UNCHANGED <<world_vars, OLLAMA_HEALTH_VERIFIED>>]_vars
    /\ [](BothReturned => result = parked.result)

(***************************************************************************)
(* C17, amended: the running total, the blob and the other locals belong   *)
(* to one run; the one mutable state runs share is the process-wide health *)
(* flag, which a run may set and nothing clears; with a completion that    *)
(* answers by its arguments alone two runs over the same corpus, however   *)
(* interleaved, return the same blob.                                      *)
(***************************************************************************)
C17_RunIsolation ==
    /\ [][RunStep => /\ parked' = parked
                     /\ UNCHANGED world_vars
                     /\ OLLAMA_HEALTH_VERIFIED => OLLAMA_HEALTH_VERIFIED']_vars
    /\ [](BothReturned => result = parked.result)

\* two runs switched in the middle, the flag set by one of them, both with
\* a raw and a summarized section
C17_Witness ==
    /\ BothReturned
    /\ interleaved
    /\ OLLAMA_HEALTH_VERIFIED
    /\ result = parked.result
    /\ \E i, j \in 1..Len(sections) :
          /\ ~sections[i].asked
          /\ sections[j].asked /\ sections[j].error = ""

(***************************************************************************)
(* C18.  Gating in synthesize.py's main: synthesize_knowledge is called    *)
(* only on a non-empty blob that aggregate_library returned; it returns    *)
(* None, and does not raise, when the completion fails; a file is written  *)
(* only when it returned a report; and when the blob is empty or the       *)
(* synthesis gave no report the process exits with status 1 and nothing    *)
(* is written.                                                             *)
(***************************************************************************)
NoReport == synthesis_report.none \/ synthesis_report.text = ""

C18_MainGating ==
    /\ synthesis_report.called => (pc = "returned" /\ result # <<>>)
    /\ (synthesis_report.called /\ synthesis_report.error # "")
          => (synthesis_report.none /\ synthesis_report.raised = "")
    /\ artifact # {} => (synthesis_report.called /\ ~NoReport)
    /\ \A a \in artifact : a.report = synthesis_report.text
    /\ (main_pc = "exited" /\ (pc # "returned" \/ result = <<>> \/ NoReport))
          => (exit_status = "1" /\ artifact = {})
    /\ exit_status = "0" => artifact # {}
    /\ main_pc # "exited" => (exit_status = "running" /\ artifact = {})

\* main exited with status 1 after a synthesis whose completion failed, and
\* wrote nothing
C18_Witness ==
    /\ main_pc = "exited"
    /\ exit_status = "1"
    /\ result # <<>>
    /\ synthesis_report.called
    /\ synthesis_report.error = "RuntimeError"
    /\ artifact = {}

(***************************************************************************)
(* C19.  Completion contract: a call of run_ollama_command returns the     *)
(* model's text or fails with RuntimeError and with nothing else, whether  *)
(* the service is unavailable, the command times out or exits non-zero; an *)
(* answer comes only once the health check has passed in this process; and *)
(* the health flag, once set, is never cleared.                            *)
(***************************************************************************)
C19_CompletionContract ==
    /\ [](\A i \in 1..Len(sections) :
            /\ sections[i].asked => sections[i].error \in {"", "RuntimeError"}
            /\ (sections[i].asked /\ sections[i].error = "") => OLLAMA_HEALTH_VERIFIED)
    /\ [][OLLAMA_HEALTH_VERIFIED => OLLAMA_HEALTH_VERIFIED']_vars

(***************************************************************************)
(* C20.  Temp dir cleanup: whichever way a call of get_video_data ends     *)
(* once the directory of its URL has been made, by returning the data, by  *)
(* returning None for a metadata failure or by an exception of the         *)
(* fetching or the parsing, that directory does not exist when it ends;    *)
(* and while the call goes on the directory is there.                      *)
(***************************************************************************)
C20_TempDirCleanup ==
    /\ video_pc \in {"returned", "raised"} => unique_temp \notin DOMAIN TEMP_DIR
    /\ video_pc \in {"metadata", "subtitles", "select"} => unique_temp \in DOMAIN TEMP_DIR

\* the call ended with an exception of reading a subtitle it had fetched
C20_Witness ==
    /\ video_pc = "raised"
    /\ video_exception = "UnicodeDecodeError"
    /\ unique_temp \notin DOMAIN TEMP_DIR

\* C21: bridge main changes the files of the skills library only in a step
\* where the parsed decision is PROMOTE, --dry-run is off and the generated
\* templates hold all three required keys; a run that ended otherwise left the
\* library as it was.  parse_decision yields UNKNOWN for None, for a text
\* without a decision and for an unrecognised one, and REJECT for a rejection.
PromotedBy(text, dry, data) ==
    /\ parse_decision(text) = "PROMOTE"
    /\ ~dry
    /\ validate_json_data(data)
Promoted == PromotedBy(evaluation, dry_run, templates)
C21_PromotionGating ==
    /\ [][skill_files' # skill_files => PromotedBy(evaluation', dry_run', templates')]_vars
    /\ [](bridge_pc \in {"returned", "raised"} /\ ~Promoted => skill_files \in LibraryBefore)
    /\ [](/\ parse_decision(None) = "UNKNOWN"
          /\ parse_decision(Some("No decision here")) = "UNKNOWN"
          /\ parse_decision(Some("DECISION: [MAYBE]")) = "UNKNOWN"
          /\ parse_decision(Some("Some text\nDECISION: [REJECT]\nMore text")) = "REJECT")
C21_Witness ==
    /\ bridge_pc = "returned"
    /\ Promoted
    /\ \A k \in 1..3 : SkillPaths("agent-loop")[k] \in DOMAIN skill_files
    /\ skill_files["claude-skills/agent-loop/SKILL.md"] = "# Skill"

\* C22: in librarian main the library, the queue file, the index and the
\* rendered index change only in the step that follows an analysis that is
\* not None; when the analysis of the fetched video fails, the process exits
\* with status 1 and the library, the queue file and the index are as they
\* were before the run.
StoredFiles == <<saved, queue_file, index_yaml, index_md>>
AnalysisHasFailed == librarian_pc = "exited" /\ ~video_data.none /\ analysis.none
C22_CorruptionGuard ==
    /\ [][StoredFiles' # StoredFiles => librarian_pc = "save" /\ ~analysis.none]_vars
    /\ [](AnalysisHasFailed =>
            /\ exit_status = "1"
            /\ saved = <<>>
            /\ queue_file \in QueuesOfMain
            /\ index_yaml \in IndexesOfMain
            /\ index_md = None)
C22_Witness ==
    /\ AnalysisHasFailed
    /\ exit_status = "1"
    /\ video_data.title = "Agents"
    /\ queue_file = Some(USUAL_QUEUE)
    /\ saved = <<>>

\* C23: whenever update_queue rewrites VIDEOS_QUEUE.md, the rewritten file
\* holds the entry of the video after a Videos Analyzed marker, whatever the
\* arrangement of the markers; the other lines are kept in their order; and
\* the file is not rewritten when no line of the Priority Queue holds the URL.
\* line k of lines lies in the Priority Queue section
InPriorityQueue(lines, k) ==
    \E j \in 1..(k - 1) :
        /\ In(priority_marker, lines[j])
        /\ \A m \in (j + 1)..(k - 1) :
              In(analyzed_marker, lines[m]) => In(priority_marker, lines[m])
IsMarker(line) == In(priority_marker, line) \/ In(analyzed_marker, line)
\* the lines of the Priority Queue that hold the URL
QueuedLines(lines, u) ==
    {k \in 1..Len(lines) :
        ~IsMarker(lines[k]) /\ InPriorityQueue(lines, k) /\ In(clean_url(u), lines[k])}
\* text without the occurrences of part
RECURSIVE Without(_, _)
Without(text, part) ==
    LET at == Find(text, part, 1)
    IN  IF at = 0 THEN text
        ELSE SubSeq(text, 1, at - 1) \o Without(SubSeq(text, at + Len(part), Len(text)), part)
\* the lines but those of a set, joined
RECURSIVE JoinBut(_, _, _)
JoinBut(lines, k, dropped) ==
    IF k > Len(lines) THEN ""
    ELSE (IF k \in dropped THEN "" ELSE lines[k]) \o JoinBut(lines, k + 1, dropped)
EntryOfCall(data) ==
    QueueEntry(data.url, data.title, data.channel, PathIn(ReportName(data, "")))
UnderAnalyzed(text, entry) ==
    \E i \in 1..(Len(text) - Len(entry) + 1) :
        /\ SubSeq(text, i, i + Len(entry) - 1) = entry
        /\ Find(SubSeq(text, 1, i - 1), analyzed_marker, 1) # 0
C23_QueueMove ==
    [][/\ queue_file' # queue_file =>
            /\ UnderAnalyzed(queue_file'.text, EntryOfCall(video_data'))
            /\ Without(queue_file'.text, EntryOfCall(video_data'))
                 = JoinBut(readlines(queue_file.text), 1,
                           QueuedLines(readlines(queue_file.text), url'))
       /\ (queue_file.none \/ QueuedLines(readlines(queue_file.text), url') = {})
            => queue_file' = queue_file]_vars

\* C24: from an index without two entries of one url, after any sequence of
\* update_index calls no two entries of index.yaml have the same url; and a
\* call whose url is in the index already leaves index.yaml and the rendered
\* index as they were.
UniqueUrls(entries) ==
    \A i, j \in 1..Len(entries) : entries[i].url = entries[j].url => i = j
C24_IndexUniqueness ==
    /\ [](UniqueUrls(index_yaml.entries))
    /\ [][(\E k \in 1..Len(index_yaml.entries) : index_yaml.entries[k].url = url')
             => UNCHANGED <<index_yaml, index_md>>]_vars
C24_Witness ==
    /\ librarian_pc = "returned"
    /\ Len(index_yaml.entries) = 3
    /\ index_yaml.entries[1].url = "https://youtu.be/a"
    /\ index_yaml.entries[2].url = "https://youtu.be/b"
    /\ index_yaml.entries[3].url = "https://youtu.be/c"
    /\ url = "https://youtu.be/a"

\* C25: at every point of an aggregation run the running total of characters
\* is at least the length of the blob built so far.
C25_AccountingSoundness == total_chars >= StrLen(aggregated_text)

====
